---- MODULE Spec2Model ----
(***************************************************************************)
(* k8s-pending-resource-inspector: the schedulability analysis of          *)
(* internal/analyzer.go together with the fetcher it drives.               *)
(*                                                                         *)
(* Quantities (k8s resource.Quantity) are exact integers: CPU in           *)
(* millicores, memory in Mi.  The zero Quantity{} is 0.  A formatted       *)
(* string (fmt.Sprintf) is the sequence of its literal pieces and of the   *)
(* strings of its arguments, in order.                                     *)
(***************************************************************************)
EXTENDS Integers, Sequences, FiniteSets, TLC

\* ------------------------------------------------------------------ bounds
MaxNodes == 2
MaxPods == 2

\* Quantities the inputs are drawn from (millicores; Mi).
CPUVals == {0, 500, 1000}
MemVals == {0, 512, 1024}

\* ------------------------------------------------------- resource.Quantity
\* q.IsZero()
IsZero(q) == q = 0

\* q.Cmp(y): -1, 0 or 1
Cmp(q, y) == IF q < y THEN -1 ELSE IF q = y THEN 0 ELSE 1

\* q.String() of a CPU quantity: canonical decimal form, "500m", "1", "0"
\* (one CPU is 1000 millicores)
CPUString(q) ==
    IF q % 1000 = 0 THEN ToString(q \div 1000)
    ELSE ToString(q) \o "m"

\* q.String() of a memory quantity: canonical binary form, "512Mi", "1Gi", "0"
\* (one Gi is 1024 Mi)
MemoryString(q) ==
    IF q = 0 THEN "0"
    ELSE IF q % 1024 = 0 THEN ToString(q \div 1024) \o "Gi"
    ELSE ToString(q) \o "Mi"

\* ------------------------------------------------------------ pkg/types
\* types.NodeInfo
NodeInfos ==
    [Name : {"node"}, AllocatableCPU : CPUVals, AllocatableMemory : MemVals,
     Taints : {<<>>}, Labels : {<<>>}]

\* types.PodInfo
PodInfos ==
    [Name : {"pod"}, Namespace : {"default"},
     RequestsCPU : CPUVals, RequestsMemory : MemVals,
     LimitsCPU : CPUVals, LimitsMemory : MemVals,
     NodeAffinity : {<<>>}, Tolerations : {<<>>}]

\* all sequences over S of length at most n
RECURSIVE SeqsUpTo(_, _)
SeqsUpTo(S, n) ==
    IF n = 0 THEN {<<>>}
    ELSE LET shorter == SeqsUpTo(S, n - 1)
         IN  shorter \cup {Append(s, x) : s \in shorter, x \in S}

\* ------------------------------------------------- internal/analyzer.go
\* a scan that takes the memory of the node holding the largest CPU
RECURSIVE findMaxFrom_sameNode(_, _, _, _)
findMaxFrom_sameNode(nodes, i, maxCPU, maxMemory) ==
    IF i > Len(nodes) THEN [cpu |-> maxCPU, memory |-> maxMemory]
    ELSE IF Cmp(nodes[i].AllocatableCPU, maxCPU) > 0 \/ i = 1
         THEN findMaxFrom_sameNode(nodes, i + 1,
                nodes[i].AllocatableCPU, nodes[i].AllocatableMemory)
         ELSE findMaxFrom_sameNode(nodes, i + 1, maxCPU, maxMemory)

\* a scan that passes over tainted nodes
RECURSIVE findMaxFrom_untaintedOnly(_, _, _, _)
findMaxFrom_untaintedOnly(nodes, i, maxCPU, maxMemory) ==
    IF i > Len(nodes) THEN [cpu |-> maxCPU, memory |-> maxMemory]
    ELSE IF nodes[i].Taints # <<>>
         THEN findMaxFrom_untaintedOnly(nodes, i + 1, maxCPU, maxMemory)
         ELSE findMaxFrom_untaintedOnly(nodes, i + 1,
                IF Cmp(nodes[i].AllocatableCPU, maxCPU) > 0
                    THEN nodes[i].AllocatableCPU ELSE maxCPU,
                IF Cmp(nodes[i].AllocatableMemory, maxMemory) > 0
                    THEN nodes[i].AllocatableMemory ELSE maxMemory)

\* findMaxAvailableResources: one scan, two running maxima starting at the
\* zero Quantity, each replaced only by a strictly larger value.
RECURSIVE findMaxFrom(_, _, _, _)
findMaxFrom(nodes, i, maxCPU, maxMemory) ==
    IF i > Len(nodes) THEN [cpu |-> maxCPU, memory |-> maxMemory]
    ELSE findMaxFrom(nodes, i + 1,
            IF Cmp(nodes[i].AllocatableCPU, maxCPU) > 0
                THEN nodes[i].AllocatableCPU ELSE maxCPU,
            IF Cmp(nodes[i].AllocatableMemory, maxMemory) > 0
                THEN nodes[i].AllocatableMemory ELSE maxMemory)

findMaxAvailableResources(nodes) == findMaxFrom(nodes, 1, 0, 0)

\* a selection made per pod: with limits in use both limit totals are taken
selectResources_perPod(pod, includeLimits) ==
    IF includeLimits /\ (~IsZero(pod.LimitsCPU) \/ ~IsZero(pod.LimitsMemory))
    THEN [podCPU |-> pod.LimitsCPU, podMemory |-> pod.LimitsMemory,
          resourceType |-> "limits"]
    ELSE [podCPU |-> pod.RequestsCPU, podMemory |-> pod.RequestsMemory,
          resourceType |-> "requests"]

\* a label that follows the flag alone
selectResources_labelByFlag(pod, includeLimits) ==
    [podCPU |-> IF includeLimits /\ ~IsZero(pod.LimitsCPU)
                THEN pod.LimitsCPU ELSE pod.RequestsCPU,
     podMemory |-> IF includeLimits /\ ~IsZero(pod.LimitsMemory)
                   THEN pod.LimitsMemory ELSE pod.RequestsMemory,
     resourceType |-> IF includeLimits THEN "limits" ELSE "requests"]

\* limits taken whenever the flag is set, zero limits included
selectResources_zeroLimits(pod, includeLimits) ==
    IF includeLimits
    THEN [podCPU |-> pod.LimitsCPU,
          podMemory |-> pod.LimitsMemory,
          resourceType |-> "limits"]
    ELSE [podCPU |-> pod.RequestsCPU,
          podMemory |-> pod.RequestsMemory,
          resourceType |-> "requests"]

\* analyzeSinglePod, lines 78-90: the values compared and the label used
selectResources(pod, includeLimits) ==
    IF includeLimits /\ (~IsZero(pod.LimitsCPU) \/ ~IsZero(pod.LimitsMemory))
    THEN [podCPU |-> IF ~IsZero(pod.LimitsCPU)
                        THEN pod.LimitsCPU ELSE pod.RequestsCPU,
          podMemory |-> IF ~IsZero(pod.LimitsMemory)
                        THEN pod.LimitsMemory ELSE pod.RequestsMemory,
          resourceType |-> "limits"]
    ELSE [podCPU |-> pod.RequestsCPU,
          podMemory |-> pod.RequestsMemory,
          resourceType |-> "requests"]

\* a strict comparison
fits_strict(demand, maxAvailable) == Cmp(demand, maxAvailable) < 0

\* analyzeSinglePod, lines 92-93: podX.Cmp(maxAvailableX) <= 0
fits(demand, maxAvailable) == Cmp(demand, maxAvailable) <= 0

\* a switch whose CPU case is tested first
explain_cpuFirst(cpuFits, memoryFits, resourceType, podCPU, podMemory, maxCPU, maxMemory) ==
    IF cpuFits /\ memoryFits
    THEN [reason |-> <<>>, suggestion |-> <<>>]
    ELSE IF ~cpuFits
    THEN [reason |->
            <<resourceType, ".cpu = ", CPUString(podCPU),
              " exceeds all node allocatable.cpu (max: ", CPUString(maxCPU), ")">>,
          suggestion |->
            <<"Lower ", resourceType, ".cpu to <= ", CPUString(maxCPU),
              " or add higher-CPU node">>]
    ELSE [reason |->
            <<resourceType, ".memory = ", MemoryString(podMemory),
              " exceeds all node allocatable.memory (max: ",
              MemoryString(maxMemory), ")">>,
          suggestion |->
            <<"Lower ", resourceType, ".memory to <= ", MemoryString(maxMemory),
              " or add higher-memory node">>]

\* a switch whose default case sets the reason only
explain_noSuggestion(cpuFits, memoryFits, resourceType, podCPU, podMemory, maxCPU, maxMemory) ==
    IF cpuFits /\ memoryFits
    THEN [reason |-> <<>>, suggestion |-> <<>>]
    ELSE IF ~cpuFits /\ ~memoryFits
    THEN [reason |->
            <<resourceType, ".cpu = ", CPUString(podCPU), " and ",
              resourceType, ".memory = ", MemoryString(podMemory),
              " exceed all node allocatable resources (max CPU: ",
              CPUString(maxCPU), ", max memory: ", MemoryString(maxMemory), ")">>,
          suggestion |->
            <<"Lower ", resourceType, ".cpu to <= ", CPUString(maxCPU), " and ",
              resourceType, ".memory to <= ", MemoryString(maxMemory),
              ", or add nodes with higher capacity">>]
    ELSE IF ~cpuFits
    THEN [reason |->
            <<resourceType, ".cpu = ", CPUString(podCPU),
              " exceeds all node allocatable.cpu (max: ", CPUString(maxCPU), ")">>,
          suggestion |->
            <<"Lower ", resourceType, ".cpu to <= ", CPUString(maxCPU),
              " or add higher-CPU node">>]
    ELSE [reason |->
            <<resourceType, ".memory = ", MemoryString(podMemory),
              " exceeds all node allocatable.memory (max: ",
              MemoryString(maxMemory), ")">>,
          suggestion |-> <<>>]

\* analyzeSinglePod, lines 97-117: reason and suggestion of a result
explain(cpuFits, memoryFits, resourceType, podCPU, podMemory, maxCPU, maxMemory) ==
    IF cpuFits /\ memoryFits
    THEN [reason |-> <<>>, suggestion |-> <<>>]
    ELSE IF ~cpuFits /\ ~memoryFits
    THEN [reason |->
            <<resourceType, ".cpu = ", CPUString(podCPU), " and ",
              resourceType, ".memory = ", MemoryString(podMemory),
              " exceed all node allocatable resources (max CPU: ",
              CPUString(maxCPU), ", max memory: ", MemoryString(maxMemory), ")">>,
          suggestion |->
            <<"Lower ", resourceType, ".cpu to <= ", CPUString(maxCPU), " and ",
              resourceType, ".memory to <= ", MemoryString(maxMemory),
              ", or add nodes with higher capacity">>]
    ELSE IF ~cpuFits
    THEN [reason |->
            <<resourceType, ".cpu = ", CPUString(podCPU),
              " exceeds all node allocatable.cpu (max: ", CPUString(maxCPU), ")">>,
          suggestion |->
            <<"Lower ", resourceType, ".cpu to <= ", CPUString(maxCPU),
              " or add higher-CPU node">>]
    ELSE [reason |->
            <<resourceType, ".memory = ", MemoryString(podMemory),
              " exceeds all node allocatable.memory (max: ",
              MemoryString(maxMemory), ")">>,
          suggestion |->
            <<"Lower ", resourceType, ".memory to <= ", MemoryString(maxMemory),
              " or add higher-memory node">>]

\* a pod counts as schedulable only when one node holds both resources
analyzeSinglePod_perNode(pod, nodes, includeLimits) ==
    LET max == findMaxAvailableResources(nodes)
        sel == selectResources(pod, includeLimits)
        cpuFits == fits(sel.podCPU, max.cpu)
        memoryFits == fits(sel.podMemory, max.memory)
        text == explain(cpuFits, memoryFits, sel.resourceType,
                        sel.podCPU, sel.podMemory, max.cpu, max.memory)
    IN  [Pod |-> pod,
         IsSchedulable |->
            \E i \in DOMAIN nodes :
                /\ fits(sel.podCPU, nodes[i].AllocatableCPU)
                /\ fits(sel.podMemory, nodes[i].AllocatableMemory),
         Reason |-> text.reason,
         Suggestion |-> text.suggestion,
         MaxAvailableCPU |-> max.cpu,
         MaxAvailableMemory |-> max.memory]

\* a verdict that needs at least one node
analyzeSinglePod_needsNode(pod, nodes, includeLimits) ==
    LET max == findMaxAvailableResources(nodes)
        sel == selectResources(pod, includeLimits)
        cpuFits == fits(sel.podCPU, max.cpu) /\ nodes # <<>>
        memoryFits == fits(sel.podMemory, max.memory) /\ nodes # <<>>
        text == explain(cpuFits, memoryFits, sel.resourceType,
                        sel.podCPU, sel.podMemory, max.cpu, max.memory)
    IN  [Pod |-> pod,
         IsSchedulable |-> cpuFits /\ memoryFits,
         Reason |-> text.reason,
         Suggestion |-> text.suggestion,
         MaxAvailableCPU |-> max.cpu,
         MaxAvailableMemory |-> max.memory]

analyzeSinglePod(pod, nodes, includeLimits) ==
    LET max == findMaxAvailableResources(nodes)
        sel == selectResources(pod, includeLimits)
        cpuFits == fits(sel.podCPU, max.cpu)
        memoryFits == fits(sel.podMemory, max.memory)
        text == explain(cpuFits, memoryFits, sel.resourceType,
                        sel.podCPU, sel.podMemory, max.cpu, max.memory)
    IN  [Pod |-> pod,
         IsSchedulable |-> cpuFits /\ memoryFits,
         Reason |-> text.reason,
         Suggestion |-> text.suggestion,
         MaxAvailableCPU |-> max.cpu,
         MaxAvailableMemory |-> max.memory]

\* ------------------------------------------------- internal/fetcher.go
\* corev1.ResourceList: a map from resource name to quantity; a nil map is
\* the empty one.  Cpu() and Memory() give the zero quantity for a missing
\* entry.
ResourceNames == {"cpu", "memory"}
Cpu(rl) == IF "cpu" \in DOMAIN rl THEN rl["cpu"] ELSE 0
Memory(rl) == IF "memory" \in DOMAIN rl THEN rl["memory"] ELSE 0
NoResources == [n \in {} |-> 0]

\* totals in which a container without a limit counts with its request
RECURSIVE sumContainers_inheritRequest(_, _, _)
sumContainers_inheritRequest(containers, i, acc) ==
    IF i > Len(containers) THEN acc
    ELSE LET c == containers[i]
         IN  sumContainers_inheritRequest(containers, i + 1,
               [RequestsCPU |-> acc.RequestsCPU + Cpu(c.Requests),
                RequestsMemory |-> acc.RequestsMemory + Memory(c.Requests),
                LimitsCPU |-> acc.LimitsCPU +
                    (IF "cpu" \in DOMAIN c.Limits
                     THEN Cpu(c.Limits) ELSE Cpu(c.Requests)),
                LimitsMemory |-> acc.LimitsMemory +
                    (IF "memory" \in DOMAIN c.Limits
                     THEN Memory(c.Limits) ELSE Memory(c.Requests))])

\* parsePodResources: the four totals over the containers, in order (a nil
\* list is skipped by the code, which adds the same zero as reading it)
RECURSIVE sumContainers(_, _, _)
sumContainers(containers, i, acc) ==
    IF i > Len(containers) THEN acc
    ELSE LET c == containers[i]
         IN  sumContainers(containers, i + 1,
               [RequestsCPU |-> acc.RequestsCPU + Cpu(c.Requests),
                RequestsMemory |-> acc.RequestsMemory + Memory(c.Requests),
                LimitsCPU |-> acc.LimitsCPU + Cpu(c.Limits),
                LimitsMemory |-> acc.LimitsMemory + Memory(c.Limits)])

parsePodResources(pod) ==
    LET total == sumContainers(pod.Containers, 1,
                   [RequestsCPU |-> 0, RequestsMemory |-> 0,
                    LimitsCPU |-> 0, LimitsMemory |-> 0])
    IN  [Name |-> pod.Name,
         Namespace |-> pod.Namespace,
         RequestsCPU |-> total.RequestsCPU,
         RequestsMemory |-> total.RequestsMemory,
         LimitsCPU |-> total.LimitsCPU,
         LimitsMemory |-> total.LimitsMemory,
         NodeAffinity |-> pod.NodeAffinity,
         Tolerations |-> pod.Tolerations]

\* a list that is not restricted to the Pending phase
RECURSIVE listPendingFrom_anyPhase(_, _, _)
listPendingFrom_anyPhase(apiPods, i, namespace) ==
    IF i > Len(apiPods) THEN <<>>
    ELSE IF namespace = "" \/ apiPods[i].Namespace = namespace
         THEN <<apiPods[i]>> \o listPendingFrom_anyPhase(apiPods, i + 1, namespace)
         ELSE listPendingFrom_anyPhase(apiPods, i + 1, namespace)

\* Pods(namespace).List with FieldSelector "status.phase=Pending": the pods
\* of the namespace (of all namespaces for "") that are Pending, in the
\* order of the API's list
RECURSIVE listPendingFrom(_, _, _)
listPendingFrom(apiPods, i, namespace) ==
    IF i > Len(apiPods) THEN <<>>
    ELSE IF /\ apiPods[i].Phase = "Pending"
            /\ (namespace = "" \/ apiPods[i].Namespace = namespace)
         THEN <<apiPods[i]>> \o listPendingFrom(apiPods, i + 1, namespace)
         ELSE listPendingFrom(apiPods, i + 1, namespace)

\* FetchPendingPods on a successful list: one PodInfo per listed pod
FetchPendingPods(apiPods, namespace) ==
    LET items == listPendingFrom(apiPods, 1, namespace)
    IN  [i \in 1..Len(items) |-> parsePodResources(items[i])]

\* FetchNodes on a successful list: one NodeInfo per node
FetchNodes(apiNodes) ==
    [i \in 1..Len(apiNodes) |->
        [Name |-> apiNodes[i].Name,
         AllocatableCPU |-> Cpu(apiNodes[i].Allocatable),
         AllocatableMemory |-> Memory(apiNodes[i].Allocatable),
         Taints |-> apiNodes[i].Taints,
         Labels |-> apiNodes[i].Labels]]

\* ------------------------------------------------------------ the cluster
\* The container lists, namespaces and phases the cluster's pods are made of.
SmallContainer ==
    [Requests |-> [n \in ResourceNames |-> IF n = "cpu" THEN 500 ELSE 512],
     Limits |-> NoResources]
CPULimitedContainer ==
    [Requests |-> [n \in ResourceNames |-> IF n = "cpu" THEN 500 ELSE 1024],
     Limits |-> [n \in {"cpu"} |-> 1500]]
ContainerLists ==
    {<<>>, <<SmallContainer>>, <<CPULimitedContainer, SmallContainer>>}
PodPlaces ==
    {[Namespace |-> "default", Phase |-> "Pending"],
     [Namespace |-> "kube-system", Phase |-> "Pending"],
     [Namespace |-> "default", Phase |-> "Running"]}
ApiPodKinds ==
    {[Namespace |-> p.Namespace, Phase |-> p.Phase, Containers |-> c] :
        p \in PodPlaces, c \in ContainerLists}
ApiNodeKinds ==
    {[n \in ResourceNames |-> IF n = "cpu" THEN c ELSE m] :
        c \in {500, 1000}, m \in {512, 1024}}

\* object names are unique: the i-th object of a list is named after i
NamedPods(kinds) ==
    [i \in 1..Len(kinds) |->
        [Name |-> "pod-" \o ToString(i),
         Namespace |-> kinds[i].Namespace,
         Phase |-> kinds[i].Phase,
         Containers |-> kinds[i].Containers,
         NodeAffinity |-> <<>>,
         Tolerations |-> <<>>]]
NamedNodes(kinds) ==
    [i \in 1..Len(kinds) |->
        [Name |-> "node-" \o ToString(i), Allocatable |-> kinds[i],
         Taints |-> <<>>, Labels |-> <<>>]]

\* the causes a List call of the API can fail with
ApiErrors == {"connection refused", "forbidden"}

\* ---------------------------------------------------------------- state
VARIABLES
    ttPod, ttNodes, ttIncludeLimits,   \* one case of the pure functions' callers
    ttResult, ttMax,                   \* what the calls returned (<<>>: not yet)
    clusterPods, clusterNodes,         \* the objects the API server lists
    namespace, includeLimits,          \* arguments of AnalyzePodSchedulability
    pc,                                \* where the call stands
    pods, nodes, results,              \* its locals
    ret,                               \* what it returned
    calls                              \* the calls it made, in order

VARIABLES
    ppPod, ppInfo,                     \* parsePodResources: a corev1.Pod, the PodInfo
    prev,                              \* outcome of the previous analysis (<<>>: none)
    format, writer,                    \* the Reporter's fields
    reportResults, clusterName, totalNodes,   \* arguments of GenerateReport
    reportRet,                         \* what GenerateReport returned (<<>>: not yet)
    analysis,                          \* what buildClusterAnalysis returned
    outputFormat, alertSlack, logLevel, logFormat,   \* the command's flags
    flagsErr                           \* what validateFlags returned (<<>>: not yet)

VARIABLES
    webhookURL, redacted,              \* RedactWebhookURL: argument, result
    response,                          \* what the webhook answers to a request
    posted,                            \* the requests sent to the webhook
    slackMessage,                      \* what buildSlackMessage returned
    slackRet,                          \* what SendSlackNotification returned
    runPc,                             \* where runAnalysis stands
    metaNodes,                         \* the nodes it fetched for the report
    logged,                            \* the entries written to the log
    runRet,                            \* what runAnalysis returned
    changes                            \* changes of the cluster's nodes so far

ttVars == <<ttPod, ttNodes, ttIncludeLimits, ttResult, ttMax>>
callVars == <<clusterPods, clusterNodes, namespace, includeLimits,
              pc, pods, nodes, results, ret>>
parseVars == <<ppPod, ppInfo>>
reportVars == <<format, writer, reportResults, clusterName, totalNodes,
                reportRet, analysis>>
flagVars == <<outputFormat, alertSlack, logLevel, logFormat, flagsErr>>
redactVars == <<webhookURL, redacted>>
slackVars == <<response, posted, slackMessage, slackRet>>
runVars == <<runPc, metaNodes, logged, runRet, changes>>
laterVars == <<redactVars, slackVars, runVars>>
extVars == <<parseVars, prev, reportVars, flagVars, laterVars>>
vars == <<ttVars, callVars, calls, extVars>>

NotReturned == [results |-> <<>>, resultsNil |-> TRUE, err |-> <<>>, errNil |-> TRUE]

NoCall ==
    /\ clusterPods = <<>>
    /\ clusterNodes = <<>>
    /\ namespace = ""
    /\ includeLimits = FALSE
    /\ pc = "idle"
    /\ pods = <<>>
    /\ nodes = <<>>
    /\ results = <<>>
    /\ ret = NotReturned
    /\ calls = <<>>

NoCase ==
    /\ ttPod = [Name |-> "pod", Namespace |-> "default", RequestsCPU |-> 0,
                RequestsMemory |-> 0, LimitsCPU |-> 0, LimitsMemory |-> 0,
                NodeAffinity |-> <<>>, Tolerations |-> <<>>]
    /\ ttNodes = <<>>
    /\ ttIncludeLimits = FALSE
    /\ ttResult = <<>>
    /\ ttMax = <<>>

NoParse ==
    /\ ppPod = [Name |-> "pod", Namespace |-> "default", Phase |-> "Pending",
                Containers |-> <<>>, NodeAffinity |-> <<>>, Tolerations |-> <<>>]
    /\ ppInfo = <<>>

NoReport ==
    /\ format = "human"
    /\ writer = <<>>
    /\ reportResults = <<>>
    /\ clusterName = ""
    /\ totalNodes = 0
    /\ reportRet = <<>>
    /\ analysis = <<>>

\* the flags at their defaults (main.go, init)
NoFlags ==
    /\ outputFormat = "human"
    /\ alertSlack = <<>>
    /\ logLevel = "info"
    /\ logFormat = "text"
    /\ flagsErr = <<>>

NoRedact ==
    /\ webhookURL = <<>>
    /\ redacted = <<>>

NoSlack ==
    /\ response = [status |-> 200, err |-> <<>>, body |-> "ok"]
    /\ posted = <<>>
    /\ slackMessage = <<>>
    /\ slackRet = <<>>

NoRun ==
    /\ runPc = "idle"
    /\ metaNodes = <<>>
    /\ logged = <<>>
    /\ runRet = <<>>
    /\ changes = 0

NoLater ==
    /\ NoRedact
    /\ NoSlack
    /\ NoRun

NoExt ==
    /\ NoParse
    /\ prev = <<>>
    /\ NoReport
    /\ NoFlags
    /\ NoLater

\* The table-driven callers of the two pure functions: one pod, one node
\* list and one flag per case; the outputs are empty until the call is made.
UnitInit ==
    /\ ttPod \in PodInfos
    /\ ttNodes \in SeqsUpTo(NodeInfos, MaxNodes)
    /\ ttIncludeLimits \in BOOLEAN
    /\ ttResult = <<>>
    /\ ttMax = <<>>
    /\ NoCall
    /\ NoExt

CallAnalyzeSinglePod ==
    /\ ttResult = <<>>
    /\ ttResult' = <<analyzeSinglePod(ttPod, ttNodes, ttIncludeLimits)>>
    /\ UNCHANGED <<ttPod, ttNodes, ttIncludeLimits, ttMax>>
    /\ UNCHANGED callVars
    /\ UNCHANGED extVars
    /\ UNCHANGED calls

CallFindMaxAvailableResources ==
    /\ ttMax = <<>>
    /\ ttMax' = <<findMaxAvailableResources(ttNodes)>>
    /\ UNCHANGED <<ttPod, ttNodes, ttIncludeLimits, ttResult>>
    /\ UNCHANGED callVars
    /\ UNCHANGED extVars
    /\ UNCHANGED calls

UnitNext == CallAnalyzeSinglePod \/ CallFindMaxAvailableResources

UnitSpec == UnitInit /\ [][UnitNext]_vars

\* ---------------------------------- Analyzer.AnalyzePodSchedulability
\* One call against one cluster.
Init ==
    /\ clusterPods \in {NamedPods(k) : k \in SeqsUpTo(ApiPodKinds, MaxPods)}
    /\ clusterNodes \in {NamedNodes(k) : k \in SeqsUpTo(ApiNodeKinds, MaxNodes)}
    /\ namespace \in {"", "default"}
    /\ includeLimits \in BOOLEAN
    /\ pc = "fetchPods"
    /\ pods = <<>>
    /\ nodes = <<>>
    /\ results = <<>>
    /\ ret = NotReturned
    /\ calls = <<>>
    /\ NoCase
    /\ NoExt

\* line 45, err == nil
FetchPendingPodsOK ==
    /\ pc = "fetchPods"
    /\ pods' = FetchPendingPods(clusterPods, namespace)
    /\ pc' = "fetchNodes"
    /\ UNCHANGED <<clusterPods, clusterNodes, namespace, includeLimits,
                   nodes, results, ret>>
    /\ UNCHANGED ttVars
    /\ UNCHANGED extVars
    /\ calls' = Append(calls, "FetchPendingPods")

\* a failed pod fetch after which the nodes are fetched all the same
FetchPendingPodsFail_thenNodes ==
    /\ pc = "fetchPods"
    /\ \E cause \in ApiErrors :
         ret' = [results |-> <<>>, resultsNil |-> TRUE, errNil |-> FALSE,
                 err |-> <<"failed to fetch pending pods: ",
                           "failed to list pending pods: ", cause>>]
    /\ pc' = "done"
    /\ UNCHANGED <<clusterPods, clusterNodes, namespace, includeLimits,
                   pods, nodes, results>>
    /\ UNCHANGED ttVars
    /\ UNCHANGED extVars
    /\ calls' = calls \o <<"FetchPendingPods", "FetchNodes">>

\* lines 45-48, err != nil: the fetcher's error, wrapped
FetchPendingPodsFail ==
    /\ pc = "fetchPods"
    /\ \E cause \in ApiErrors :
         ret' = [results |-> <<>>, resultsNil |-> TRUE, errNil |-> FALSE,
                 err |-> <<"failed to fetch pending pods: ",
                           "failed to list pending pods: ", cause>>]
    /\ pc' = "done"
    /\ UNCHANGED <<clusterPods, clusterNodes, namespace, includeLimits,
                   pods, nodes, results>>
    /\ UNCHANGED ttVars
    /\ UNCHANGED extVars
    /\ calls' = Append(calls, "FetchPendingPods")

\* lines 50 and 55, err == nil
FetchNodesOK ==
    /\ pc = "fetchNodes"
    /\ nodes' = FetchNodes(clusterNodes)
    /\ results' = <<>>
    /\ pc' = "loop"
    /\ UNCHANGED <<clusterPods, clusterNodes, namespace, includeLimits,
                   pods, ret>>
    /\ UNCHANGED ttVars
    /\ UNCHANGED extVars
    /\ calls' = Append(calls, "FetchNodes")

\* a failed node fetch that hands back the (empty) batch with the error
FetchNodesFail_withBatch ==
    /\ pc = "fetchNodes"
    /\ \E cause \in ApiErrors :
         ret' = [results |-> <<>>, resultsNil |-> FALSE, errNil |-> FALSE,
                 err |-> <<"failed to fetch nodes: ",
                           "failed to list nodes: ", cause>>]
    /\ pc' = "done"
    /\ UNCHANGED <<clusterPods, clusterNodes, namespace, includeLimits,
                   pods, nodes, results>>
    /\ UNCHANGED ttVars
    /\ UNCHANGED extVars
    /\ calls' = Append(calls, "FetchNodes")

\* lines 50-53, err != nil
FetchNodesFail ==
    /\ pc = "fetchNodes"
    /\ \E cause \in ApiErrors :
         ret' = [results |-> <<>>, resultsNil |-> TRUE, errNil |-> FALSE,
                 err |-> <<"failed to fetch nodes: ",
                           "failed to list nodes: ", cause>>]
    /\ pc' = "done"
    /\ UNCHANGED <<clusterPods, clusterNodes, namespace, includeLimits,
                   pods, nodes, results>>
    /\ UNCHANGED ttVars
    /\ UNCHANGED extVars
    /\ calls' = Append(calls, "FetchNodes")

\* a loop that takes a node away for every pod already judged
AnalyzeNextPod_shrinking ==
    /\ pc = "loop"
    /\ Len(results) < Len(pods)
    /\ results' = Append(results,
                    analyzeSinglePod(pods[Len(results) + 1],
                        SubSeq(nodes, Len(results) + 1, Len(nodes)),
                        includeLimits))
    /\ UNCHANGED <<clusterPods, clusterNodes, namespace, includeLimits,
                   pc, pods, nodes, ret>>
    /\ UNCHANGED ttVars
    /\ UNCHANGED extVars
    /\ calls' = calls \o <<"analyzeSinglePod", "findMaxAvailableResources">>

\* a loop that puts each new result in front of the earlier ones
AnalyzeNextPod_prepend ==
    /\ pc = "loop"
    /\ Len(results) < Len(pods)
    /\ results' = <<analyzeSinglePod(pods[Len(results) + 1], nodes,
                                     includeLimits)>> \o results
    /\ UNCHANGED <<clusterPods, clusterNodes, namespace, includeLimits,
                   pc, pods, nodes, ret>>
    /\ UNCHANGED ttVars
    /\ UNCHANGED extVars
    /\ calls' = calls \o <<"analyzeSinglePod", "findMaxAvailableResources">>

\* lines 56-59: one iteration of the loop over pods
AnalyzeNextPod ==
    /\ pc = "loop"
    /\ Len(results) < Len(pods)
    /\ results' = Append(results,
                    analyzeSinglePod(pods[Len(results) + 1], nodes, includeLimits))
    /\ UNCHANGED <<clusterPods, clusterNodes, namespace, includeLimits,
                   pc, pods, nodes, ret>>
    /\ UNCHANGED ttVars
    /\ UNCHANGED extVars
    /\ calls' = calls \o <<"analyzeSinglePod", "findMaxAvailableResources">>

\* a return that treats an empty batch as a failure
ReturnResults_emptyIsError ==
    /\ pc = "loop"
    /\ Len(results) = Len(pods)
    /\ ret' = IF results = <<>>
              THEN [results |-> <<>>, resultsNil |-> TRUE, errNil |-> FALSE,
                    err |-> <<"no pending pods">>]
              ELSE [results |-> results, resultsNil |-> FALSE, errNil |-> TRUE,
                    err |-> <<>>]
    /\ pc' = "done"
    /\ UNCHANGED <<clusterPods, clusterNodes, namespace, includeLimits,
                   pods, nodes, results>>
    /\ UNCHANGED ttVars
    /\ UNCHANGED extVars
    /\ UNCHANGED calls

\* line 61, after the last iteration
ReturnResults ==
    /\ pc = "loop"
    /\ Len(results) = Len(pods)
    /\ ret' = [results |-> results, resultsNil |-> FALSE, errNil |-> TRUE,
               err |-> <<>>]
    /\ pc' = "done"
    /\ UNCHANGED <<clusterPods, clusterNodes, namespace, includeLimits,
                   pods, nodes, results>>
    /\ UNCHANGED ttVars
    /\ UNCHANGED extVars
    /\ UNCHANGED calls

Next ==
    \/ FetchPendingPodsOK
    \/ FetchPendingPodsFail
    \/ FetchNodesOK
    \/ FetchNodesFail
    \/ AnalyzeNextPod
    \/ ReturnResults

Spec == Init /\ [][Next]_vars

\* ------------------------- repeated analyses of a cluster whose placement
\* constraints change between the calls (the quantities never do)
MasterTaint == [Key |-> "node-role.kubernetes.io/master", Effect |-> "NoSchedule"]
LinuxLabel == [Key |-> "kubernetes.io/os", Value |-> "linux"]
NotReadyToleration ==
    [Key |-> "node.kubernetes.io/not-ready", Operator |-> "Exists",
     Effect |-> "NoExecute"]
LinuxAffinity ==
    [Key |-> "kubernetes.io/os", Operator |-> "In", Values |-> <<"linux">>]

\* a CPU-rich and a memory-rich kind of node
PlacementNodeKinds ==
    {[n \in ResourceNames |-> IF n = "cpu" THEN 1000 ELSE 512],
     [n \in ResourceNames |-> IF n = "cpu" THEN 500 ELSE 1024]}
\* two pending pods: one too large for those nodes, one small enough
PlacementPodKinds ==
    <<[Namespace |-> "default", Phase |-> "Pending",
       Containers |-> <<CPULimitedContainer, SmallContainer>>],
      [Namespace |-> "default", Phase |-> "Pending",
       Containers |-> <<SmallContainer>>]>>

\* what of a result list does not name the pod
Verdicts(rs) ==
    [i \in DOMAIN rs |->
        [IsSchedulable |-> rs[i].IsSchedulable,
         Reason |-> rs[i].Reason,
         Suggestion |-> rs[i].Suggestion,
         MaxAvailableCPU |-> rs[i].MaxAvailableCPU,
         MaxAvailableMemory |-> rs[i].MaxAvailableMemory]]

Unconstrained ==
    /\ \A i \in DOMAIN clusterNodes :
         clusterNodes[i].Taints = <<>> /\ clusterNodes[i].Labels = <<>>
    /\ \A i \in DOMAIN clusterPods :
         clusterPods[i].Tolerations = <<>> /\ clusterPods[i].NodeAffinity = <<>>

PlacementInit ==
    /\ clusterPods = NamedPods(PlacementPodKinds)
    /\ clusterNodes \in {NamedNodes(k) : k \in SeqsUpTo(PlacementNodeKinds, MaxNodes)}
    /\ namespace = ""
    /\ includeLimits \in BOOLEAN
    /\ pc = "fetchPods"
    /\ pods = <<>>
    /\ nodes = <<>>
    /\ results = <<>>
    /\ ret = NotReturned
    /\ calls = <<>>
    /\ NoCase
    /\ NoExt

\* before an analysis starts: a node is tainted or untainted
TaintNode ==
    /\ pc = "fetchPods"
    /\ \E i \in DOMAIN clusterNodes :
         clusterNodes' = [clusterNodes EXCEPT ![i].Taints =
                            IF @ = <<>> THEN <<MasterTaint>> ELSE <<>>]
    /\ UNCHANGED <<clusterPods, namespace, includeLimits, pc, pods, nodes,
                   results, ret>>
    /\ UNCHANGED ttVars
    /\ UNCHANGED extVars
    /\ UNCHANGED calls

\* a node is labelled or its label removed
LabelNode ==
    /\ pc = "fetchPods"
    /\ \E i \in DOMAIN clusterNodes :
         clusterNodes' = [clusterNodes EXCEPT ![i].Labels =
                            IF @ = <<>> THEN <<LinuxLabel>> ELSE <<>>]
    /\ UNCHANGED <<clusterPods, namespace, includeLimits, pc, pods, nodes,
                   results, ret>>
    /\ UNCHANGED ttVars
    /\ UNCHANGED extVars
    /\ UNCHANGED calls

\* a pod is given a toleration or loses it
ToleratePod ==
    /\ pc = "fetchPods"
    /\ \E i \in DOMAIN clusterPods :
         clusterPods' = [clusterPods EXCEPT ![i].Tolerations =
                            IF @ = <<>> THEN <<NotReadyToleration>> ELSE <<>>]
    /\ UNCHANGED <<clusterNodes, namespace, includeLimits, pc, pods, nodes,
                   results, ret>>
    /\ UNCHANGED ttVars
    /\ UNCHANGED extVars
    /\ UNCHANGED calls

\* a pod is given a required node affinity or loses it
AffinePod ==
    /\ pc = "fetchPods"
    /\ \E i \in DOMAIN clusterPods :
         clusterPods' = [clusterPods EXCEPT ![i].NodeAffinity =
                            IF @ = <<>> THEN <<LinuxAffinity>> ELSE <<>>]
    /\ UNCHANGED <<clusterNodes, namespace, includeLimits, pc, pods, nodes,
                   results, ret>>
    /\ UNCHANGED ttVars
    /\ UNCHANGED extVars
    /\ UNCHANGED calls

\* AnalyzePodSchedulability is called again with the same arguments
AnalyzeAgain ==
    /\ pc = "done"
    /\ ~ret.resultsNil
    /\ prev' = <<[verdicts |-> Verdicts(ret.results),
                  unconstrained |-> Unconstrained]>>
    /\ pc' = "fetchPods"
    /\ pods' = <<>>
    /\ nodes' = <<>>
    /\ results' = <<>>
    /\ ret' = NotReturned
    /\ UNCHANGED <<clusterPods, clusterNodes, namespace, includeLimits>>
    /\ UNCHANGED ttVars
    /\ UNCHANGED <<parseVars, reportVars, flagVars>>
    /\ UNCHANGED laterVars
    /\ calls' = <<>>

PlacementNext ==
    \/ FetchPendingPodsOK
    \/ FetchNodesOK
    \/ AnalyzeNextPod
    \/ ReturnResults
    \/ TaintNode
    \/ LabelNode
    \/ ToleratePod
    \/ AffinePod
    \/ AnalyzeAgain

PlacementSpec == PlacementInit /\ [][PlacementNext]_vars

\* ------------------------------------------- Fetcher.parsePodResources
MaxContainers == 2

\* the resource lists a container may state: any subset of the two entries
StatedCPU == {250, 500}
StatedMemory == {256}
ResourceLists ==
    {NoResources}
    \cup {[n \in {"cpu"} |-> c] : c \in StatedCPU}
    \cup {[n \in {"memory"} |-> m] : m \in StatedMemory}
    \cup {[n \in ResourceNames |-> IF n = "cpu" THEN c ELSE m] :
            c \in StatedCPU, m \in StatedMemory}
Containers == [Requests : ResourceLists, Limits : ResourceLists]

\* one case of TestParsePodResources: a pod, and the PodInfo once parsed
ParseInit ==
    /\ \E cs \in SeqsUpTo(Containers, MaxContainers) :
         ppPod = [Name |-> "test-pod", Namespace |-> "test-ns",
                  Phase |-> "Pending", Containers |-> cs,
                  NodeAffinity |-> <<>>, Tolerations |-> <<>>]
    /\ ppInfo = <<>>
    /\ prev = <<>>
    /\ NoReport
    /\ NoFlags
    /\ NoLater
    /\ NoCase
    /\ NoCall

CallParsePodResources ==
    /\ ppInfo = <<>>
    /\ ppInfo' = <<parsePodResources(ppPod)>>
    /\ UNCHANGED <<ppPod, prev>>
    /\ UNCHANGED <<ttVars, callVars, reportVars, flagVars>>
    /\ UNCHANGED laterVars
    /\ UNCHANGED calls

ParseNext == CallParsePodResources

ParseSpec == ParseInit /\ [][ParseNext]_vars

\* ------------------------------------------------- internal/reporter.go
MaxResults == 3

\* The marks of the human report are written here in ASCII: "[v]" stands for
\* the check mark U+2713 in brackets, "[x]" for the ballot cross U+2717 in
\* brackets, and "->" for the arrow U+2192.
SupportedFormats == {"human", "json", "yaml"}
Formats == SupportedFormats \cup {"unsupported", ""}

\* the results of the reporter's tests
ReportResultKinds ==
    {[Pod |-> [Name |-> "schedulable-pod", Namespace |-> "default"],
      IsSchedulable |-> TRUE, Reason |-> <<>>, Suggestion |-> <<>>],
     [Pod |-> [Name |-> "unschedulable-pod-1", Namespace |-> "default"],
      IsSchedulable |-> FALSE, Reason |-> <<"Insufficient CPU">>,
      Suggestion |-> <<"Add more nodes">>],
     [Pod |-> [Name |-> "unschedulable-pod-2", Namespace |-> "test"],
      IsSchedulable |-> FALSE, Reason |-> <<"Insufficient Memory">>,
      Suggestion |-> <<>>]}

\* the readings of time.Now()
Clock == {1, 2}

\* what reaches the writer: lines of text (each ended by a newline) and
\* encoded documents
TextLine(tokens) == [kind |-> "text", text |-> tokens, value |-> <<>>]
Document(kind, v) == [kind |-> kind, text |-> <<>>, value |-> <<v>>]
ReturnedNil == [errNil |-> TRUE, err |-> <<>>]
ReturnedError(tokens) == [errNil |-> FALSE, err |-> tokens]

\* buildClusterAnalysis, lines 221-226: the results that are not schedulable
RECURSIVE unschedulableFrom(_, _)
unschedulableFrom(rs, i) ==
    IF i > Len(rs) THEN <<>>
    ELSE IF ~rs[i].IsSchedulable
         THEN <<rs[i]>> \o unschedulableFrom(rs, i + 1)
         ELSE unschedulableFrom(rs, i + 1)

\* an analysis that lists every result
buildClusterAnalysis_listsAll(rs, name, n, t) ==
    [Timestamp |-> t,
     ClusterName |-> name,
     TotalNodes |-> n,
     TotalPendingPods |-> Len(rs),
     UnschedulablePods |-> rs,
     Summary |-> <<"Found ", ToString(Len(rs)), " pending pods, ",
                   ToString(Len(rs)),
                   " unschedulable due to resource constraints">>]

buildClusterAnalysis(rs, name, n, t) ==
    LET unschedulablePods == unschedulableFrom(rs, 1)
    IN  [Timestamp |-> t,
         ClusterName |-> name,
         TotalNodes |-> n,
         TotalPendingPods |-> Len(rs),
         UnschedulablePods |-> unschedulablePods,
         Summary |-> <<"Found ", ToString(Len(rs)), " pending pods, ",
                       ToString(Len(unschedulablePods)),
                       " unschedulable due to resource constraints">>]

\* entries written last result first
RECURSIVE humanEntries_lastFirst(_, _)
humanEntries_lastFirst(rs, i) ==
    IF i > Len(rs) THEN <<>>
    ELSE humanEntries_lastFirst(rs, i + 1) \o
         (IF rs[i].IsSchedulable
          THEN <<TextLine(<<"[v] Pod: ", rs[i].Pod.Name, " - Schedulable">>)>>
          ELSE <<TextLine(<<"[x] Pod: ", rs[i].Pod.Name>>),
                 TextLine(<<"-> Reason: ">> \o rs[i].Reason),
                 TextLine(<<"-> Suggested: ">> \o rs[i].Suggestion)>>)
         \o <<TextLine(<<>>)>>

\* generateHumanReport, lines 77-86: the loop over the results
RECURSIVE humanEntries(_, _)
humanEntries(rs, i) ==
    IF i > Len(rs) THEN <<>>
    ELSE (IF rs[i].IsSchedulable
          THEN <<TextLine(<<"[v] Pod: ", rs[i].Pod.Name, " - Schedulable">>)>>
          ELSE <<TextLine(<<"[x] Pod: ", rs[i].Pod.Name>>),
                 TextLine(<<"-> Reason: ">> \o rs[i].Reason),
                 TextLine(<<"-> Suggested: ">> \o rs[i].Suggestion)>>)
         \o <<TextLine(<<>>)>>
         \o humanEntries(rs, i + 1)

generateHumanReport(rs) ==
    <<TextLine(<<"Found ", ToString(Len(rs)), " pending pod(s) for analysis:">>),
      TextLine(<<>>)>>
    \o humanEntries(rs, 1)

\* a Reporter over an empty buffer, and the arguments of one call
ReportInit ==
    /\ format \in Formats
    /\ writer = <<>>
    /\ reportResults \in SeqsUpTo(ReportResultKinds, MaxResults)
    /\ clusterName \in {"test-cluster", ""}
    /\ totalNodes \in {0, 5}
    /\ reportRet = <<>>
    /\ analysis = <<>>
    /\ NoParse
    /\ prev = <<>>
    /\ NoFlags
    /\ NoLater
    /\ NoCase
    /\ NoCall

\* an empty list answered with the report of another format's empty document
GenerateReportNoResults_byFormat ==
    /\ reportRet = <<>>
    /\ Len(reportResults) = 0
    /\ \/ /\ format \notin {"json", "yaml"}
          /\ writer' = writer \o
                <<TextLine(<<"No pending pods found in the specified scope.">>)>>
       \/ /\ format \in {"json", "yaml"}
          /\ \E t \in Clock :
                writer' = writer \o
                    <<Document(format, buildClusterAnalysis(
                        reportResults, clusterName, totalNodes, t))>>
    /\ reportRet' = <<ReturnedNil>>
    /\ UNCHANGED <<format, reportResults, clusterName, totalNodes, analysis>>
    /\ UNCHANGED <<ttVars, callVars, parseVars, prev, flagVars>>
    /\ UNCHANGED laterVars
    /\ UNCHANGED calls

\* GenerateReport, lines 58-61
GenerateReportNoResults ==
    /\ reportRet = <<>>
    /\ Len(reportResults) = 0
    /\ writer' = writer \o
            <<TextLine(<<"No pending pods found in the specified scope.">>)>>
    /\ reportRet' = <<ReturnedNil>>
    /\ UNCHANGED <<format, reportResults, clusterName, totalNodes, analysis>>
    /\ UNCHANGED <<ttVars, callVars, parseVars, prev, flagVars>>
    /\ UNCHANGED laterVars
    /\ UNCHANGED calls

\* lines 64-65 and generateHumanReport
GenerateReportHuman ==
    /\ reportRet = <<>>
    /\ Len(reportResults) # 0
    /\ format = "human"
    /\ writer' = writer \o generateHumanReport(reportResults)
    /\ reportRet' = <<ReturnedNil>>
    /\ UNCHANGED <<format, reportResults, clusterName, totalNodes, analysis>>
    /\ UNCHANGED <<ttVars, callVars, parseVars, prev, flagVars>>
    /\ UNCHANGED laterVars
    /\ UNCHANGED calls

\* lines 66-67 and generateJSONReport
GenerateReportJSON ==
    /\ reportRet = <<>>
    /\ Len(reportResults) # 0
    /\ format = "json"
    /\ \E t \in Clock :
         writer' = writer \o
            <<Document("json", buildClusterAnalysis(
                reportResults, clusterName, totalNodes, t))>>
    /\ reportRet' = <<ReturnedNil>>
    /\ UNCHANGED <<format, reportResults, clusterName, totalNodes, analysis>>
    /\ UNCHANGED <<ttVars, callVars, parseVars, prev, flagVars>>
    /\ UNCHANGED laterVars
    /\ UNCHANGED calls

\* lines 68-69 and generateYAMLReport
GenerateReportYAML ==
    /\ reportRet = <<>>
    /\ Len(reportResults) # 0
    /\ format = "yaml"
    /\ \E t \in Clock :
         writer' = writer \o
            <<Document("yaml", buildClusterAnalysis(
                reportResults, clusterName, totalNodes, t))>>
    /\ reportRet' = <<ReturnedNil>>
    /\ UNCHANGED <<format, reportResults, clusterName, totalNodes, analysis>>
    /\ UNCHANGED <<ttVars, callVars, parseVars, prev, flagVars>>
    /\ UNCHANGED laterVars
    /\ UNCHANGED calls

\* an unknown format rendered as the human report
GenerateReportUnsupported_asHuman ==
    /\ reportRet = <<>>
    /\ Len(reportResults) # 0
    /\ format \notin SupportedFormats
    /\ writer' = writer \o generateHumanReport(reportResults)
    /\ reportRet' = <<ReturnedNil>>
    /\ UNCHANGED <<format, reportResults, clusterName, totalNodes, analysis>>
    /\ UNCHANGED <<ttVars, callVars, parseVars, prev, flagVars>>
    /\ UNCHANGED laterVars
    /\ UNCHANGED calls

\* lines 70-71
GenerateReportUnsupported ==
    /\ reportRet = <<>>
    /\ Len(reportResults) # 0
    /\ format \notin SupportedFormats
    /\ reportRet' = <<ReturnedError(<<"unsupported output format: ", format>>)>>
    /\ UNCHANGED <<format, writer, reportResults, clusterName, totalNodes,
                   analysis>>
    /\ UNCHANGED <<ttVars, callVars, parseVars, prev, flagVars>>
    /\ UNCHANGED laterVars
    /\ UNCHANGED calls

\* TestBuildClusterAnalysis: buildClusterAnalysis called on its own
CallBuildClusterAnalysis ==
    /\ analysis = <<>>
    /\ \E t \in Clock :
         analysis' = <<buildClusterAnalysis(
                        reportResults, clusterName, totalNodes, t)>>
    /\ UNCHANGED <<format, writer, reportResults, clusterName, totalNodes,
                   reportRet>>
    /\ UNCHANGED <<ttVars, callVars, parseVars, prev, flagVars>>
    /\ UNCHANGED laterVars
    /\ UNCHANGED calls

ReportNext ==
    \/ GenerateReportNoResults
    \/ GenerateReportHuman
    \/ GenerateReportJSON
    \/ GenerateReportYAML
    \/ GenerateReportUnsupported
    \/ CallBuildClusterAnalysis

ReportSpec == ReportInit /\ [][ReportNext]_vars

\* --------------------------------------------------------- cmd/main.go
\* The Slack flag is a sequence of characters, so that a prefix is a prefix.
\* the prefix required of a webhook URL, character by character
SlackPrefix ==
    <<"h", "t", "t", "p", "s", ":", "/", "/", "h", "o", "o", "k", "s", ".",
      "s", "l", "a", "c", "k", ".", "c", "o", "m", "/">>
\* the webhook URLs of TestValidateFlags, and others near the prefix
SlackWebhook ==
    <<"h", "t", "t", "p", "s", ":", "/", "/", "h", "o", "o", "k", "s", ".",
      "s", "l", "a", "c", "k", ".", "c", "o", "m", "/", "s", "e", "r", "v",
      "i", "c", "e", "s", "/", "T", "1", "2", "3", "/", "B", "4", "5", "6",
      "/", "t", "o", "k", "e", "n", "1", "2", "3">>
HttpWebhook ==
    <<"h", "t", "t", "p", ":", "/", "/", "h", "o", "o", "k", "s", ".", "s",
      "l", "a", "c", "k", ".", "c", "o", "m", "/", "s", "e", "r", "v", "i",
      "c", "e", "s", "/", "t", "e", "s", "t">>
ExampleWebhook ==
    <<"h", "t", "t", "p", "s", ":", "/", "/", "e", "x", "a", "m", "p", "l",
      "e", ".", "c", "o", "m", "/", "w", "e", "b", "h", "o", "o", "k">>
InvalidURL ==
    <<"i", "n", "v", "a", "l", "i", "d", "-", "u", "r", "l">>
NoSlashWebhook ==
    <<"h", "t", "t", "p", "s", ":", "/", "/", "h", "o", "o", "k", "s", ".",
      "s", "l", "a", "c", "k", ".", "c", "o", "m">>
OtherHostWebhook ==
    <<"h", "t", "t", "p", "s", ":", "/", "/", "h", "o", "o", "k", "s", ".",
      "s", "l", "a", "c", "k", ".", "c", "o", "m", ".", "e", "x", "a", "m",
      "p", "l", "e", ".", "c", "o", "m", "/", "x">>
UpperCaseWebhook ==
    <<"H", "T", "T", "P", "S", ":", "/", "/", "h", "o", "o", "k", "s", ".",
      "s", "l", "a", "c", "k", ".", "c", "o", "m", "/", "s", "e", "r", "v",
      "i", "c", "e", "s", "/", "t", "e", "s", "t">>
EmbeddedWebhook ==
    <<"h", "t", "t", "p", "s", ":", "/", "/", "e", "x", "a", "m", "p", "l",
      "e", ".", "c", "o", "m", "/", "?", "u", "=", "h", "t", "t", "p", "s",
      ":", "/", "/", "h", "o", "o", "k", "s", ".", "s", "l", "a", "c", "k",
      ".", "c", "o", "m", "/">>

WebhookFlags ==
    {<<>>, SlackPrefix, SlackWebhook, HttpWebhook, ExampleWebhook, InvalidURL,
     NoSlashWebhook, OtherHostWebhook, UpperCaseWebhook, EmbeddedWebhook}
OutputFormatFlags == {"human", "json", "yaml", "xml", "JSON", ""}
LogLevelFlags == {"debug", "info", "warn", "error", "INFO", "invalid", ""}
LogFormatFlags == {"text", "json", "JSON", "xml", ""}

\* strings.HasPrefix
HasPrefix(s, prefix) ==
    Len(s) >= Len(prefix) /\ SubSeq(s, 1, Len(prefix)) = prefix

\* a validation that looks at the Slack flag first
validateFlags_slackFirst(o, a, l, f) ==
    IF a # <<>> /\ ~HasPrefix(a, SlackPrefix)
    THEN ReturnedError(
            <<"invalid Slack webhook URL: must start with https://hooks.slack.com/">>)
    ELSE IF o \notin {"human", "json", "yaml"}
    THEN ReturnedError(<<"unsupported output format: ", o,
                         " (supported: human, json, yaml)">>)
    ELSE IF l \notin {"debug", "info", "warn", "error"}
    THEN ReturnedError(<<"unsupported log level: ", l,
                         " (supported: debug, info, warn, error)">>)
    ELSE IF f \notin {"text", "json"}
    THEN ReturnedError(<<"unsupported log format: ", f,
                         " (supported: text, json)">>)
    ELSE ReturnedNil

\* validateFlags over the four flags, in the order of its checks
validateFlags(o, a, l, f) ==
    IF o \notin {"human", "json", "yaml"}
    THEN ReturnedError(<<"unsupported output format: ", o,
                         " (supported: human, json, yaml)">>)
    ELSE IF a # <<>> /\ ~HasPrefix(a, SlackPrefix)
    THEN ReturnedError(
            <<"invalid Slack webhook URL: must start with https://hooks.slack.com/">>)
    ELSE IF l \notin {"debug", "info", "warn", "error"}
    THEN ReturnedError(<<"unsupported log level: ", l,
                         " (supported: debug, info, warn, error)">>)
    ELSE IF f \notin {"text", "json"}
    THEN ReturnedError(<<"unsupported log format: ", f,
                         " (supported: text, json)">>)
    ELSE ReturnedNil

\* the flags as given on the command line
FlagsInit ==
    /\ outputFormat \in OutputFormatFlags
    /\ alertSlack \in WebhookFlags
    /\ logLevel \in LogLevelFlags
    /\ logFormat \in LogFormatFlags
    /\ flagsErr = <<>>
    /\ NoParse
    /\ prev = <<>>
    /\ NoReport
    /\ NoLater
    /\ NoCase
    /\ NoCall

CallValidateFlags ==
    /\ flagsErr = <<>>
    /\ flagsErr' = <<validateFlags(outputFormat, alertSlack, logLevel, logFormat)>>
    /\ UNCHANGED <<outputFormat, alertSlack, logLevel, logFormat>>
    /\ UNCHANGED <<ttVars, callVars, parseVars, prev, reportVars>>
    /\ UNCHANGED laterVars
    /\ UNCHANGED calls

FlagsNext == CallValidateFlags

FlagsSpec == FlagsInit /\ [][FlagsNext]_vars

\* --------------------------------------------- utils.RedactWebhookURL
MaxURLLen == 4

\* strings.LastIndex(s, "/"), counted from 1: 0 when there is no "/"
RECURSIVE lastSlashFrom(_, _)
lastSlashFrom(s, i) ==
    IF i = 0 THEN 0
    ELSE IF s[i] = "/" THEN i
    ELSE lastSlashFrom(s, i - 1)
LastSlash(s) == lastSlashFrom(s, Len(s))

Stars == <<"*", "*", "*">>

\* a redaction cut at the first "/"
RedactWebhookURL_firstSlash(s) ==
    IF s = <<>> THEN <<>>
    ELSE LET firstSlash ==
                IF LastSlash(s) = 0 THEN 0
                ELSE CHOOSE i \in 1..Len(s) :
                        s[i] = "/" /\ \A j \in 1..(i - 1) : s[j] # "/"
         IN  IF firstSlash # 0 /\ firstSlash < Len(s)
             THEN SubSeq(s, 1, firstSlash) \o Stars
             ELSE Stars

RedactWebhookURL(s) ==
    IF s = <<>> THEN <<>>
    ELSE LET lastSlash == LastSlash(s)
         IN  IF lastSlash # 0 /\ lastSlash < Len(s)
             THEN SubSeq(s, 1, lastSlash) \o Stars
             ELSE Stars

\* the characters tried: the separator, a letter, and the mask's own
URLChars == {"/", "a", "*"}

RedactInit ==
    /\ webhookURL \in SeqsUpTo(URLChars, MaxURLLen) \cup WebhookFlags
    /\ redacted = <<>>
    /\ NoSlack
    /\ NoRun
    /\ NoParse
    /\ prev = <<>>
    /\ NoReport
    /\ NoFlags
    /\ NoCase
    /\ NoCall

CallRedactWebhookURL ==
    /\ redacted = <<>>
    /\ redacted' = <<RedactWebhookURL(webhookURL)>>
    /\ UNCHANGED webhookURL
    /\ UNCHANGED <<ttVars, callVars, calls, parseVars, prev, reportVars, flagVars>>
    /\ UNCHANGED <<slackVars, runVars>>

RedactNext == CallRedactWebhookURL

RedactSpec == RedactInit /\ [][RedactNext]_vars

(***************************************************************************)
(* SendSlackNotification and buildSlackMessage (internal/reporter.go       *)
(* 129-218): the message built from a result list and the outcome of       *)
(* posting it.  The webhook's answer is the environment's: the request     *)
(* fails in transport, or an HTTP status comes back.  The two symbols that *)
(* open the attachment titles (U+2705, U+26A0 U+FE0F) are written "[ok] "  *)
(* and "[!] ".                                                             *)
(***************************************************************************)
MaxSlackResults == 6

\* lines 195 and 198: the unschedulable pods listed one by one
SlackFieldLimit == 5

\* lines 122-126
SlackField(title, value) == [Title |-> title, Value |-> value, Short |-> FALSE]

\* lines 194-209 with one pod more listed before the remainder field
RECURSIVE slackFields_limitSix(_, _, _)
slackFields_limitSix(unsched, i, unschedulableCount) ==
    IF i + 1 > Len(unsched) THEN <<>>
    ELSE IF i > SlackFieldLimit
    THEN <<SlackField(<<"Additional Issues">>,
                      <<"... and ", ToString(unschedulableCount - SlackFieldLimit),
                        " more unschedulable pods">>)>>
    ELSE <<SlackField(<<"Pod: ", unsched[i + 1].Pod.Name>>,
                      <<"Reason: ">> \o unsched[i + 1].Reason
                          \o <<"\nSuggestion: ">> \o unsched[i + 1].Suggestion)>>
         \o slackFields_limitSix(unsched, i + 1, unschedulableCount)

\* lines 194-209: the loop over unschedulablePods, i the 0-based index
RECURSIVE slackFields(_, _, _)
slackFields(unsched, i, unschedulableCount) ==
    IF i + 1 > Len(unsched) THEN <<>>
    ELSE IF i >= SlackFieldLimit
    THEN <<SlackField(<<"Additional Issues">>,
                      <<"... and ", ToString(unschedulableCount - SlackFieldLimit),
                        " more unschedulable pods">>)>>
    ELSE <<SlackField(<<"Pod: ", unsched[i + 1].Pod.Name>>,
                      <<"Reason: ">> \o unsched[i + 1].Reason
                          \o <<"\nSuggestion: ">> \o unsched[i + 1].Suggestion)>>
         \o slackFields(unsched, i + 1, unschedulableCount)

\* lines 171-218
buildSlackMessage(rs, unschedulablePods) ==
    LET totalPods == Len(rs)
        unschedulableCount == Len(unschedulablePods)
        attachment ==
            [Color |-> IF unschedulableCount = 0 THEN "good" ELSE "danger",
             Title |-> IF unschedulableCount = 0
                       THEN <<"[ok] All ", ToString(totalPods),
                              " pending pods are schedulable">>
                       ELSE <<"[!] ", ToString(unschedulableCount), " of ",
                              ToString(totalPods),
                              " pending pods are unschedulable">>,
             Text |-> "",
             Fields |-> IF unschedulableCount > 0
                        THEN slackFields(unschedulablePods, 0, unschedulableCount)
                        ELSE <<>>]
    IN [Text |-> "Kubernetes Pending Pod Analysis Report",
        Attachments |-> <<attachment>>]

\* what client.Do can come back with: an error, or a response with a status
Responses ==
    {[status |-> 0, err |-> <<"connection refused">>, body |-> ""]}
    \cup {[status |-> s, err |-> <<>>, body |-> "ok"] : s \in {200, 201, 204}}
    \cup {[status |-> s, err |-> <<>>, body |-> "invalid_payload"] :
            s \in {400, 404, 500}}

\* the *url.Error of a failed client.Do: Post "<url>": <cause>
TransportError(url, cause) == <<"Post ", "\"">> \o url \o <<"\"", ": ">> \o cause

\* a Reporter, the arguments of one call, and the answer the webhook will give
SlackInit ==
    /\ reportResults \in SeqsUpTo(ReportResultKinds, MaxSlackResults)
    /\ webhookURL = SlackWebhook
    /\ response \in Responses
    /\ posted = <<>>
    /\ slackMessage = <<>>
    /\ slackRet = <<>>
    /\ format = "human"
    /\ writer = <<>>
    /\ clusterName = ""
    /\ totalNodes = 0
    /\ reportRet = <<>>
    /\ analysis = <<>>
    /\ redacted = <<>>
    /\ NoRun
    /\ NoParse
    /\ prev = <<>>
    /\ NoFlags
    /\ NoCase
    /\ NoCall

\* lines 130-132
SendSlackNotificationNoResults ==
    /\ slackRet = <<>>
    /\ Len(reportResults) = 0
    /\ slackRet' = <<ReturnedNil>>
    /\ UNCHANGED <<response, posted, slackMessage>>

\* lines 134-141
SlackMessageBuilt ==
    slackMessage' = <<buildSlackMessage(reportResults,
                                        unschedulableFrom(reportResults, 1))>>

\* lines 134-159: client.Do returns an error
SendSlackNotificationTransportFail ==
    /\ slackRet = <<>>
    /\ Len(reportResults) # 0
    /\ SlackMessageBuilt
    /\ response.err # <<>>
    /\ slackRet' = <<ReturnedError(<<"failed to send Slack notification: ">>
                        \o TransportError(webhookURL, response.err))>>
    /\ UNCHANGED <<response, posted>>

\* lines 134-165: a response whose status is not 200
SendSlackNotificationBadStatus ==
    /\ slackRet = <<>>
    /\ Len(reportResults) # 0
    /\ SlackMessageBuilt
    /\ response.err = <<>>
    /\ response.status # 200
    /\ posted' = Append(posted, [url |-> webhookURL, body |-> slackMessage'[1]])
    /\ slackRet' = <<ReturnedError(<<"Slack API returned status ",
                                     ToString(response.status), ": ",
                                     response.body>>)>>
    /\ UNCHANGED response

\* lines 134-167: a response with status 200
SendSlackNotificationOK ==
    /\ slackRet = <<>>
    /\ Len(reportResults) # 0
    /\ SlackMessageBuilt
    /\ response.err = <<>>
    /\ response.status = 200
    /\ posted' = Append(posted, [url |-> webhookURL, body |-> slackMessage'[1]])
    /\ slackRet' = <<ReturnedNil>>
    /\ UNCHANGED response

\* one call of SendSlackNotification on its own
SlackFrame ==
    /\ UNCHANGED <<ttVars, callVars, calls, parseVars, prev, reportVars, flagVars>>
    /\ UNCHANGED <<redactVars, runVars>>

SlackNext ==
    \/ SendSlackNotificationNoResults /\ SlackFrame
    \/ SendSlackNotificationTransportFail /\ SlackFrame
    \/ SendSlackNotificationBadStatus /\ SlackFrame
    \/ SendSlackNotificationOK /\ SlackFrame

SlackSpec == SlackInit /\ [][SlackNext]_vars

(***************************************************************************)
(* runAnalysis (cmd/main.go 193-271): the flags are validated, the client  *)
(* is created, the analyzer runs, the nodes are fetched a second time for  *)
(* the report's metadata, the report is written to stdout and, with        *)
(* --alert-slack set, the notification is sent.  The cluster belongs to    *)
(* the API server: nodes join and leave it while the command runs.  The    *)
(* tree holds two bodies of Reporter.SendSlackNotification, the one that   *)
(* posts (internal/reporter.go 129-168) and a placeholder that prints      *)
(* (internal/fetcher.go 817-835); a build has one of them, so the         *)
(* notification step takes either.  After validateFlags neither            *)
(* setupLogging (main.go 171-174) nor the default branch of the format     *)
(* switch (main.go 248-250) can fail: the flag values they reject are      *)
(* rejected before.                                                        *)
(***************************************************************************)
MaxChanges == 1

\* logrus: an entry is written when its level is at least the configured one
LevelRank(l) ==
    CASE l = "debug" -> 1 [] l = "info" -> 2 [] l = "warn" -> 3 [] OTHER -> 4

LogEntry(level, msg, fields) == [level |-> level, msg |-> msg, fields |-> fields]

Log(lg, level, msg, fields) ==
    IF LevelRank(level) >= LevelRank(logLevel)
    THEN Append(lg, LogEntry(level, msg, fields))
    ELSE lg

\* logrus.WithError(err)
ErrorField(e) == <<"error=">> \o e.err

\* the pending pods and the nodes of the analysed cluster
RunPodKinds ==
    {p \in ApiPodKinds : /\ p.Phase = "Pending"
                         /\ p.Namespace = "default"
                         /\ Len(p.Containers) <= 1}
RunNodeKinds == {k \in ApiNodeKinds : k["cpu"] = 1000 /\ k["memory"] = 1024}

RunInit ==
    /\ outputFormat \in {"human", "json", "yaml", "xml"}
    /\ alertSlack \in {<<>>, SlackWebhook, InvalidURL}
    /\ logLevel \in {"debug", "info", "error"}
    /\ logFormat = "text"
    /\ flagsErr = <<>>
    /\ clusterPods \in {NamedPods(k) : k \in SeqsUpTo(RunPodKinds, 2)}
    /\ clusterNodes \in {NamedNodes(k) : k \in SeqsUpTo(RunNodeKinds, 1)}
    /\ namespace \in {"", "default"}
    /\ includeLimits = FALSE
    /\ pc = "idle"
    /\ pods = <<>>
    /\ nodes = <<>>
    /\ results = <<>>
    /\ ret = NotReturned
    /\ calls = <<>>
    /\ runPc = "start"
    /\ metaNodes = <<>>
    /\ logged = <<>>
    /\ runRet = <<>>
    /\ changes = 0
    /\ NoReport
    /\ NoRedact
    /\ NoSlack
    /\ NoParse
    /\ prev = <<>>
    /\ NoCase

\* main.go 194-196
RunRejectFlags ==
    /\ runPc = "start"
    /\ ~validateFlags(outputFormat, alertSlack, logLevel, logFormat).errNil
    /\ flagsErr' = <<validateFlags(outputFormat, alertSlack, logLevel, logFormat)>>
    /\ runRet' = flagsErr'
    /\ runPc' = "returned"
    /\ UNCHANGED <<outputFormat, alertSlack, logLevel, logFormat>>
    /\ UNCHANGED <<metaNodes, logged, changes>>
    /\ UNCHANGED <<ttVars, callVars, calls, parseVars, prev, reportVars>>
    /\ UNCHANGED <<redactVars, slackVars>>

\* main.go 194-210
RunStart ==
    /\ runPc = "start"
    /\ validateFlags(outputFormat, alertSlack, logLevel, logFormat).errNil
    /\ flagsErr' = <<ReturnedNil>>
    /\ logged' =
        LET started == Log(logged, "info",
                           "Starting k8s-pending-resource-inspector analysis", <<>>)
        IN  IF namespace # ""
            THEN Log(started, "info", "Analyzing specific namespace",
                     <<"namespace=", namespace>>)
            ELSE Log(started, "info", "Analyzing cluster-wide", <<>>)
    /\ runPc' = "client"
    /\ UNCHANGED <<outputFormat, alertSlack, logLevel, logFormat>>
    /\ UNCHANGED <<metaNodes, runRet, changes>>
    /\ UNCHANGED <<ttVars, callVars, calls, parseVars, prev, reportVars>>
    /\ UNCHANGED <<redactVars, slackVars>>

\* main.go 212-216: NewFetcherFromConfig fails
NewFetcherFail ==
    /\ runPc = "client"
    /\ \E cause \in {"no kubeconfig"} :
         LET e == ReturnedError(<<"failed to create Kubernetes client: ", cause>>)
         IN  /\ logged' = Log(logged, "error", "Failed to create Kubernetes client",
                              <<"error=", cause>>)
             /\ runRet' = <<e>>
    /\ runPc' = "returned"
    /\ UNCHANGED <<metaNodes, changes>>
    /\ UNCHANGED <<ttVars, callVars, calls, parseVars, prev, reportVars, flagVars>>
    /\ UNCHANGED <<redactVars, slackVars>>

\* main.go 212-222: the client is there, AnalyzePodSchedulability is entered
NewFetcherOK ==
    /\ runPc = "client"
    /\ logged' = Log(logged, "debug", "Successfully created Kubernetes client", <<>>)
    /\ runPc' = "analyze"
    /\ pc' = "fetchPods"
    /\ UNCHANGED <<clusterPods, clusterNodes, namespace, includeLimits,
                   pods, nodes, results, ret>>
    /\ UNCHANGED <<metaNodes, runRet, changes>>
    /\ UNCHANGED <<ttVars, calls, parseVars, prev, reportVars, flagVars>>
    /\ UNCHANGED <<redactVars, slackVars>>

\* main.go 222: the steps of AnalyzePodSchedulability
RunAnalyze ==
    /\ runPc = "analyze"
    /\ Next

\* main.go 223-226
RunAnalysisFailed ==
    /\ runPc = "analyze"
    /\ pc = "done"
    /\ ~ret.errNil
    /\ logged' = Log(logged, "error", "Failed to analyze pod schedulability",
                     ErrorField(ret))
    /\ runRet' = <<ReturnedError(<<"failed to analyze pod schedulability: ">>
                                 \o ret.err)>>
    /\ runPc' = "returned"
    /\ UNCHANGED <<metaNodes, changes>>
    /\ UNCHANGED <<ttVars, callVars, calls, parseVars, prev, reportVars, flagVars>>
    /\ UNCHANGED <<redactVars, slackVars>>

\* main.go 223 and 228
RunAnalysisCompleted ==
    /\ runPc = "analyze"
    /\ pc = "done"
    /\ ret.errNil
    /\ logged' = Log(logged, "info", "Pod schedulability analysis completed",
                     <<"pending_pods_count=", ToString(Len(ret.results))>>)
    /\ runPc' = "meta"
    /\ UNCHANGED <<metaNodes, runRet, changes>>
    /\ UNCHANGED <<ttVars, callVars, calls, parseVars, prev, reportVars, flagVars>>
    /\ UNCHANGED <<redactVars, slackVars>>

\* main.go 230-234: the second FetchNodes fails
RunFetchNodesFail ==
    /\ runPc = "meta"
    /\ \E cause \in ApiErrors :
         /\ logged' = Log(logged, "error", "Failed to fetch nodes for metadata",
                          <<"error=", "failed to list nodes: ", cause>>)
         /\ runRet' = <<ReturnedError(<<"failed to fetch nodes for metadata: ",
                                        "failed to list nodes: ", cause>>)>>
    /\ runPc' = "returned"
    /\ UNCHANGED <<metaNodes, changes>>
    /\ UNCHANGED <<ttVars, callVars, calls, parseVars, prev, reportVars, flagVars>>
    /\ UNCHANGED <<redactVars, slackVars>>

\* main.go 230-255: the nodes as the API server lists them now, the format
\* switch, NewReporter(os.Stdout, format) and the arguments of GenerateReport
RunFetchNodesOK ==
    /\ runPc = "meta"
    /\ metaNodes' = FetchNodes(clusterNodes)
    /\ logged' = Log(Log(logged, "debug", "Fetched cluster nodes for metadata",
                         <<"nodes_count=", ToString(Len(metaNodes'))>>),
                     "info", "Generating report", <<"format=", outputFormat>>)
    /\ format' = outputFormat
    /\ reportResults' = ret.results
    /\ clusterName' = "unknown"
    /\ totalNodes' = Len(metaNodes')
    /\ runPc' = "report"
    /\ UNCHANGED <<writer, reportRet, analysis>>
    /\ UNCHANGED <<runRet, changes>>
    /\ UNCHANGED <<ttVars, callVars, calls, parseVars, prev, flagVars>>
    /\ UNCHANGED <<redactVars, slackVars>>

\* main.go 256: GenerateReport writes the report to stdout
RunGenerateReport ==
    /\ runPc = "report"
    /\ \/ GenerateReportNoResults
       \/ GenerateReportHuman
       \/ GenerateReportJSON
       \/ GenerateReportYAML

\* reporter.go 93-104: the encoder's write to stdout fails
GenerateReportWriteFail ==
    /\ runPc = "report"
    /\ reportRet = <<>>
    /\ Len(reportResults) # 0
    /\ format \in {"json", "yaml"}
    /\ reportRet' = <<ReturnedError(<<"write /dev/stdout: broken pipe">>)>>
    /\ UNCHANGED <<format, writer, reportResults, clusterName, totalNodes,
                   analysis>>
    /\ UNCHANGED <<ttVars, callVars, calls, parseVars, prev, flagVars>>
    /\ UNCHANGED laterVars

\* main.go 256-259
RunReportFailed ==
    /\ runPc = "report"
    /\ reportRet # <<>>
    /\ ~reportRet[1].errNil
    /\ logged' = Log(logged, "error", "Failed to generate report",
                     ErrorField(reportRet[1]))
    /\ runRet' = <<ReturnedError(<<"failed to generate report: ">>
                                 \o reportRet[1].err)>>
    /\ runPc' = "returned"
    /\ UNCHANGED <<metaNodes, changes>>
    /\ UNCHANGED <<ttVars, callVars, calls, parseVars, prev, reportVars, flagVars>>
    /\ UNCHANGED <<redactVars, slackVars>>

\* main.go 261 and 269-270: no webhook given
RunCompletedWithoutSlack ==
    /\ runPc = "report"
    /\ reportRet # <<>>
    /\ reportRet[1].errNil
    /\ alertSlack = <<>>
    /\ logged' = Log(logged, "info", "Analysis completed successfully", <<>>)
    /\ runRet' = <<ReturnedNil>>
    /\ runPc' = "returned"
    /\ UNCHANGED <<metaNodes, changes>>
    /\ UNCHANGED <<ttVars, callVars, calls, parseVars, prev, reportVars, flagVars>>
    /\ UNCHANGED <<redactVars, slackVars>>

\* a notification sent whatever GenerateReport returned
RunCallSlack_ignoringReportError ==
    /\ runPc = "report"
    /\ reportRet # <<>>
    /\ alertSlack # <<>>
    /\ redacted' = <<RedactWebhookURL(alertSlack)>>
    /\ logged' = Log(logged, "info", "Sending Slack notification",
                     <<"webhook_url=">> \o redacted'[1])
    /\ webhookURL' = alertSlack
    /\ response' \in Responses
    /\ runPc' = "slack"
    /\ UNCHANGED <<posted, slackMessage, slackRet>>
    /\ UNCHANGED <<metaNodes, runRet, changes>>
    /\ UNCHANGED <<ttVars, callVars, calls, parseVars, prev, reportVars, flagVars>>

\* main.go 261-263: the log entry with the redacted webhook, and the call of
\* SendSlackNotification(ctx, alertSlack, results); the webhook will answer
\* the request, if one is made, with one of Responses
RunCallSlack ==
    /\ runPc = "report"
    /\ reportRet # <<>>
    /\ reportRet[1].errNil
    /\ alertSlack # <<>>
    /\ redacted' = <<RedactWebhookURL(alertSlack)>>
    /\ logged' = Log(logged, "info", "Sending Slack notification",
                     <<"webhook_url=">> \o redacted'[1])
    /\ webhookURL' = alertSlack
    /\ response' \in Responses
    /\ runPc' = "slack"
    /\ UNCHANGED <<posted, slackMessage, slackRet>>
    /\ UNCHANGED <<metaNodes, runRet, changes>>
    /\ UNCHANGED <<ttVars, callVars, calls, parseVars, prev, reportVars, flagVars>>

\* main.go 263: SendSlackNotification of reporter.go
RunSendSlack ==
    /\ runPc = "slack"
    /\ \/ SendSlackNotificationNoResults
       \/ SendSlackNotificationTransportFail
       \/ SendSlackNotificationBadStatus
       \/ SendSlackNotificationOK
    /\ UNCHANGED <<ttVars, callVars, calls, parseVars, prev, reportVars, flagVars>>
    /\ UNCHANGED <<redactVars, runVars>>

\* main.go 263: SendSlackNotification of fetcher.go 817-835
SendSlackNotificationPlaceholder ==
    /\ runPc = "slack"
    /\ slackRet = <<>>
    /\ LET unschedulableCount == Len(unschedulableFrom(reportResults, 1))
       IN  /\ logged' =
                Log(Log(logged, "info", "Sending Slack notification",
                        <<"webhook_url=">> \o RedactWebhookURL(webhookURL)
                        \o <<"total_results=", ToString(Len(reportResults)),
                             "unschedulable_pods=", ToString(unschedulableCount)>>),
                    "debug",
                    "Slack notification feature is currently a placeholder implementation",
                    <<>>)
           /\ writer' = Append(writer,
                TextLine(<<"Slack notification would be sent to: ">>
                         \o webhookURL
                         \o <<" with ", ToString(Len(reportResults)), " results (",
                              ToString(unschedulableCount), " unschedulable)">>))
    /\ slackRet' = <<ReturnedNil>>
    /\ UNCHANGED <<response, posted, slackMessage>>
    /\ UNCHANGED <<format, reportResults, clusterName, totalNodes, reportRet,
                   analysis>>
    /\ UNCHANGED <<runPc, metaNodes, runRet, changes>>
    /\ UNCHANGED <<ttVars, callVars, calls, parseVars, prev, flagVars, redactVars>>

\* main.go 263-266
RunSlackFailed ==
    /\ runPc = "slack"
    /\ slackRet # <<>>
    /\ ~slackRet[1].errNil
    /\ logged' = Log(logged, "error", "Failed to send Slack notification",
                     ErrorField(slackRet[1]))
    /\ runRet' = <<ReturnedError(<<"failed to send Slack notification: ">>
                                 \o slackRet[1].err)>>
    /\ runPc' = "returned"
    /\ UNCHANGED <<metaNodes, changes>>
    /\ UNCHANGED <<ttVars, callVars, calls, parseVars, prev, reportVars, flagVars>>
    /\ UNCHANGED <<redactVars, slackVars>>

\* main.go 263 and 269-270
RunCompleted ==
    /\ runPc = "slack"
    /\ slackRet # <<>>
    /\ slackRet[1].errNil
    /\ logged' = Log(logged, "info", "Analysis completed successfully", <<>>)
    /\ runRet' = <<ReturnedNil>>
    /\ runPc' = "returned"
    /\ UNCHANGED <<metaNodes, changes>>
    /\ UNCHANGED <<ttVars, callVars, calls, parseVars, prev, reportVars, flagVars>>
    /\ UNCHANGED <<redactVars, slackVars>>

\* the API server: a node joins the cluster while the command runs
NodeAdded ==
    /\ runPc \notin {"start", "returned"}
    /\ changes < MaxChanges
    /\ \E k \in RunNodeKinds :
         clusterNodes' = Append(clusterNodes,
            [Name |-> "node-" \o ToString(Len(clusterNodes) + 1),
             Allocatable |-> k, Taints |-> <<>>, Labels |-> <<>>])
    /\ changes' = changes + 1
    /\ UNCHANGED <<clusterPods, namespace, includeLimits, pc, pods, nodes,
                   results, ret>>
    /\ UNCHANGED <<runPc, metaNodes, logged, runRet>>
    /\ UNCHANGED <<ttVars, calls, parseVars, prev, reportVars, flagVars>>
    /\ UNCHANGED <<redactVars, slackVars>>

\* the API server: a node leaves the cluster while the command runs
NodeRemoved ==
    /\ runPc \notin {"start", "returned"}
    /\ changes < MaxChanges
    /\ clusterNodes # <<>>
    /\ clusterNodes' = SubSeq(clusterNodes, 1, Len(clusterNodes) - 1)
    /\ changes' = changes + 1
    /\ UNCHANGED <<clusterPods, namespace, includeLimits, pc, pods, nodes,
                   results, ret>>
    /\ UNCHANGED <<runPc, metaNodes, logged, runRet>>
    /\ UNCHANGED <<ttVars, calls, parseVars, prev, reportVars, flagVars>>
    /\ UNCHANGED <<redactVars, slackVars>>

RunNext ==
    \/ RunRejectFlags
    \/ RunStart
    \/ NewFetcherFail
    \/ NewFetcherOK
    \/ RunAnalyze
    \/ RunAnalysisFailed
    \/ RunAnalysisCompleted
    \/ RunFetchNodesFail
    \/ RunFetchNodesOK
    \/ RunGenerateReport
    \/ GenerateReportWriteFail
    \/ RunReportFailed
    \/ RunCompletedWithoutSlack
    \/ RunCallSlack
    \/ RunSendSlack
    \/ SendSlackNotificationPlaceholder
    \/ RunSlackFailed
    \/ RunCompleted
    \/ NodeAdded
    \/ NodeRemoved

RunSpec == RunInit /\ [][RunNext]_vars

\* ================================================================ claims
\* What the claims speak of, stated apart from the code's own computation.
MaxOf(S) == IF S = {} THEN 0 ELSE CHOOSE m \in S : \A x \in S : x <= m
MaxNodeCPU(nodeList) == MaxOf({nodeList[i].AllocatableCPU : i \in DOMAIN nodeList})
MaxNodeMemory(nodeList) == MaxOf({nodeList[i].AllocatableMemory : i \in DOMAIN nodeList})

LimitsInUse(p, withLimits) ==
    withLimits /\ (p.LimitsCPU # 0 \/ p.LimitsMemory # 0)
DemandCPU(p, withLimits) ==
    IF LimitsInUse(p, withLimits) /\ p.LimitsCPU # 0
    THEN p.LimitsCPU ELSE p.RequestsCPU
DemandMemory(p, withLimits) ==
    IF LimitsInUse(p, withLimits) /\ p.LimitsMemory # 0
    THEN p.LimitsMemory ELSE p.RequestsMemory
Label(p, withLimits) ==
    IF LimitsInUse(p, withLimits) THEN "limits" ELSE "requests"

Tokens(text) == {text[i] : i \in DOMAIN text}
Mentions(text, piece) == piece \in Tokens(text)
TokenAfter(text, piece) ==
    text[(CHOOSE i \in DOMAIN text : text[i] = piece) + 1]
LabelsIn(text) == Tokens(text) \cap {"limits", "requests"}

CPUPieces ==
    {".cpu = ", " exceeds all node allocatable.cpu (max: ", ")", "Lower ",
     ".cpu to <= ", " or add higher-CPU node"}
MemoryPieces ==
    {".memory = ", " exceeds all node allocatable.memory (max: ", ")", "Lower ",
     ".memory to <= ", " or add higher-memory node"}

\* the combined text: both demands and both maxima
IsCombinedText(r, cpu, memory, maxCPU, maxMemory) ==
    /\ Mentions(r.Reason, ".cpu = ")
    /\ TokenAfter(r.Reason, ".cpu = ") = CPUString(cpu)
    /\ Mentions(r.Reason, ".memory = ")
    /\ TokenAfter(r.Reason, ".memory = ") = MemoryString(memory)
    /\ Mentions(r.Reason, " exceed all node allocatable resources (max CPU: ")
    /\ TokenAfter(r.Reason, " exceed all node allocatable resources (max CPU: ")
         = CPUString(maxCPU)
    /\ Mentions(r.Reason, ", max memory: ")
    /\ TokenAfter(r.Reason, ", max memory: ") = MemoryString(maxMemory)
    /\ Mentions(r.Suggestion, ".cpu to <= ")
    /\ TokenAfter(r.Suggestion, ".cpu to <= ") = CPUString(maxCPU)
    /\ Mentions(r.Suggestion, ".memory to <= ")
    /\ TokenAfter(r.Suggestion, ".memory to <= ") = MemoryString(maxMemory)
    /\ Mentions(r.Suggestion, ", or add nodes with higher capacity")

\* the CPU-only text: the CPU demand and maximum, and nothing of memory
IsCPUOnlyText(r, cpu, maxCPU) ==
    /\ Mentions(r.Reason, ".cpu = ")
    /\ TokenAfter(r.Reason, ".cpu = ") = CPUString(cpu)
    /\ Mentions(r.Reason, " exceeds all node allocatable.cpu (max: ")
    /\ TokenAfter(r.Reason, " exceeds all node allocatable.cpu (max: ")
         = CPUString(maxCPU)
    /\ Mentions(r.Suggestion, ".cpu to <= ")
    /\ TokenAfter(r.Suggestion, ".cpu to <= ") = CPUString(maxCPU)
    /\ Tokens(r.Reason) \cup Tokens(r.Suggestion) \subseteq
         CPUPieces \cup {"limits", "requests", CPUString(cpu), CPUString(maxCPU)}

\* the memory-only text: the memory demand and maximum, and nothing of CPU
IsMemoryOnlyText(r, memory, maxMemory) ==
    /\ Mentions(r.Reason, ".memory = ")
    /\ TokenAfter(r.Reason, ".memory = ") = MemoryString(memory)
    /\ Mentions(r.Reason, " exceeds all node allocatable.memory (max: ")
    /\ TokenAfter(r.Reason, " exceeds all node allocatable.memory (max: ")
         = MemoryString(maxMemory)
    /\ Mentions(r.Suggestion, ".memory to <= ")
    /\ TokenAfter(r.Suggestion, ".memory to <= ") = MemoryString(maxMemory)
    /\ Tokens(r.Reason) \cup Tokens(r.Suggestion) \subseteq
         MemoryPieces \cup {"limits", "requests", MemoryString(memory),
                            MemoryString(maxMemory)}

\* the results of the call under way: those built so far and those returned
Produced == Tokens(results) \cup Tokens(ret.results)

\* C1: analyzeSinglePod reports a pod schedulable exactly when its selected
\* CPU demand is at most the largest allocatable CPU of any node and its
\* selected memory demand is at most the largest allocatable memory of any
\* node; equality counts as fitting.
C1_SchedulableIffWithinMaxima ==
    ttResult # <<>> =>
        (ttResult[1].IsSchedulable <=>
            /\ DemandCPU(ttPod, ttIncludeLimits) <= MaxNodeCPU(ttNodes)
            /\ DemandMemory(ttPod, ttIncludeLimits) <= MaxNodeMemory(ttNodes))

\* a pod whose demand equals the maximum in both resources, found schedulable
C1_Witness ==
    /\ ttResult # <<>>
    /\ ttResult[1].IsSchedulable
    /\ DemandCPU(ttPod, ttIncludeLimits) = MaxNodeCPU(ttNodes)
    /\ DemandMemory(ttPod, ttIncludeLimits) = MaxNodeMemory(ttNodes)
    /\ DemandCPU(ttPod, ttIncludeLimits) > 0
    /\ DemandMemory(ttPod, ttIncludeLimits) > 0

\* C2: the demand is selected per resource: with includeLimits and some
\* non-zero limit total, CPU is the limit if non-zero and else the request,
\* and memory likewise on its own; otherwise both are the requests.  The
\* values selected are the ones the result's reason prints.
C2_PerResourceSelection ==
    ttResult # <<>> =>
        LET r == ttResult[1]
            sel == selectResources(ttPod, ttIncludeLimits)
        IN  /\ sel.podCPU = DemandCPU(ttPod, ttIncludeLimits)
            /\ sel.podMemory = DemandMemory(ttPod, ttIncludeLimits)
            /\ Mentions(r.Reason, ".cpu = ") =>
                 TokenAfter(r.Reason, ".cpu = ")
                   = CPUString(DemandCPU(ttPod, ttIncludeLimits))
            /\ Mentions(r.Reason, ".memory = ") =>
                 TokenAfter(r.Reason, ".memory = ")
                   = MemoryString(DemandMemory(ttPod, ttIncludeLimits))

\* a CPU limit without a memory limit, limits enabled: the memory request is
\* what fails and what is printed
C2_Witness ==
    /\ ttResult # <<>>
    /\ ttIncludeLimits
    /\ ttPod.LimitsCPU # 0
    /\ ttPod.LimitsCPU # ttPod.RequestsCPU
    /\ ttPod.LimitsMemory = 0
    /\ ttPod.RequestsMemory # 0
    /\ ttResult[1].IsSchedulable = FALSE
    /\ Mentions(ttResult[1].Reason, ".memory = ")
    /\ TokenAfter(ttResult[1].Reason, ".memory = ")
         = MemoryString(ttPod.RequestsMemory)

\* C3: in an unschedulable result the label of every resource named in the
\* reason and in the suggestion is "limits" exactly when includeLimits is set
\* and some limit total is non-zero, and "requests" otherwise; one label
\* serves the cpu and the memory part alike.
C3_OneResourceTypeLabel ==
    (ttResult # <<>> /\ ~ttResult[1].IsSchedulable) =>
        /\ LabelsIn(ttResult[1].Reason) = {Label(ttPod, ttIncludeLimits)}
        /\ LabelsIn(ttResult[1].Suggestion) = {Label(ttPod, ttIncludeLimits)}

\* both resources fail, the memory value compared is the request, and the
\* text still says limits.memory
C3_Witness ==
    /\ ttResult # <<>>
    /\ ~ttResult[1].IsSchedulable
    /\ ttIncludeLimits
    /\ ttPod.LimitsCPU # 0
    /\ ttPod.LimitsMemory = 0
    /\ Len(ttResult[1].Reason) > 6
    /\ ttResult[1].Reason[5] = "limits"
    /\ ttResult[1].Reason[6] = ".memory = "
    /\ ttResult[1].Reason[7] = MemoryString(ttPod.RequestsMemory)

\* C4: an unschedulable result is of exactly one kind, fixed by which of the
\* two comparisons fail: both (combined text with both demands and maxima),
\* CPU only (no memory in the text), memory only (no CPU in the text).
C4_ThreeExclusiveCases ==
    (ttResult # <<>> /\ ~ttResult[1].IsSchedulable) =>
        LET r == ttResult[1]
            cpu == DemandCPU(ttPod, ttIncludeLimits)
            memory == DemandMemory(ttPod, ttIncludeLimits)
            maxCPU == MaxNodeCPU(ttNodes)
            maxMemory == MaxNodeMemory(ttNodes)
            combined == IsCombinedText(r, cpu, memory, maxCPU, maxMemory)
            cpuOnly == IsCPUOnlyText(r, cpu, maxCPU)
            memoryOnly == IsMemoryOnlyText(r, memory, maxMemory)
        IN  /\ combined <=> (cpu > maxCPU /\ memory > maxMemory)
            /\ cpuOnly <=> (cpu > maxCPU /\ memory <= maxMemory)
            /\ memoryOnly <=> (cpu <= maxCPU /\ memory > maxMemory)
            /\ combined \/ cpuOnly \/ memoryOnly
            /\ ~(combined /\ cpuOnly)
            /\ ~(combined /\ memoryOnly)
            /\ ~(cpuOnly /\ memoryOnly)

\* both comparisons fail against a non-empty node list
C4_Witness ==
    /\ ttResult # <<>>
    /\ ~ttResult[1].IsSchedulable
    /\ Len(ttNodes) > 0
    /\ DemandCPU(ttPod, ttIncludeLimits) > MaxNodeCPU(ttNodes)
    /\ DemandMemory(ttPod, ttIncludeLimits) > MaxNodeMemory(ttNodes)
    /\ Mentions(ttResult[1].Reason, ".cpu = ")
    /\ Mentions(ttResult[1].Reason, ".memory = ")

\* C5: in every result the analyzer produces, the reason is non-empty
\* exactly when the pod is not schedulable, and so is the suggestion.
C5_TextIffUnschedulable ==
    \A r \in Produced :
        /\ (r.Reason # <<>>) <=> ~r.IsSchedulable
        /\ (r.Suggestion # <<>>) <=> ~r.IsSchedulable

\* a returned batch with a schedulable pod and a pod failing on memory only
C5_Witness ==
    /\ pc = "done"
    /\ ret.errNil
    /\ Len(ret.results) = 2
    /\ ret.results[1].IsSchedulable
    /\ ret.results[1].Reason = <<>>
    /\ ~ret.results[2].IsSchedulable
    /\ Mentions(ret.results[2].Suggestion, ".memory to <= ")
    /\ ~Mentions(ret.results[2].Suggestion, ".cpu to <= ")

\* C6: findMaxAvailableResources returns the largest allocatable CPU and,
\* on its own, the largest allocatable memory of the node list; both are the
\* zero quantity for an empty list.
C6_IndependentMaxima ==
    ttMax # <<>> =>
        /\ ttMax[1].cpu = MaxNodeCPU(ttNodes)
        /\ ttMax[1].memory = MaxNodeMemory(ttNodes)
        /\ ttNodes = <<>> => (ttMax[1].cpu = 0 /\ ttMax[1].memory = 0)

\* the two maxima come from different nodes
C6_Witness ==
    /\ ttMax # <<>>
    /\ Len(ttNodes) = 2
    /\ ttNodes[1].AllocatableCPU > ttNodes[2].AllocatableCPU
    /\ ttNodes[1].AllocatableMemory < ttNodes[2].AllocatableMemory
    /\ ttMax[1].cpu = ttNodes[1].AllocatableCPU
    /\ ttMax[1].memory = ttNodes[2].AllocatableMemory

\* C7: every result of one AnalyzePodSchedulability call carries the same
\* MaxAvailableCPU and MaxAvailableMemory, those of the node list fetched for
\* the call, however many pods were judged before it.
C7_OneCeilingPerPass ==
    \A r \in Produced :
        /\ r.MaxAvailableCPU = MaxNodeCPU(nodes)
        /\ r.MaxAvailableMemory = MaxNodeMemory(nodes)
        /\ \A q \in Produced :
             /\ q.MaxAvailableCPU = r.MaxAvailableCPU
             /\ q.MaxAvailableMemory = r.MaxAvailableMemory

\* two pods judged against two nodes, the second pod against the full ceiling
C7_Witness ==
    /\ pc = "done"
    /\ ret.errNil
    /\ Len(ret.results) = 2
    /\ Len(nodes) = 2
    /\ nodes[1].AllocatableCPU > nodes[2].AllocatableCPU
    /\ ret.results[2].MaxAvailableCPU = nodes[1].AllocatableCPU

\* C8: on success there is one result per fetched pending pod, in the order
\* FetchPendingPods returned them.
C8_OneResultPerPodInOrder ==
    (pc = "done" /\ ret.errNil) =>
        /\ Len(ret.results) = Len(pods)
        /\ \A i \in DOMAIN pods : ret.results[i].Pod = pods[i]

\* two different pending pods, returned in the cluster's order
C8_Witness ==
    /\ pc = "done"
    /\ ret.errNil
    /\ Len(pods) = 2
    /\ pods[1] # pods[2]
    /\ ret.results[1].Pod.Name = pods[1].Name
    /\ ret.results[2].Pod.Name = pods[2].Name
    /\ pods[1].Name # pods[2].Name

\* C9: once both fetches have succeeded with no pending pod, the call
\* returns an empty result sequence and a nil error, whatever the node list.
C9_EmptyPodsEmptyResult ==
    [][(pc = "loop" /\ pods = <<>>) =>
          (pc' = "done" /\ ret'.errNil /\ ret'.results = <<>>)]_vars

\* a cluster with pods, none of them pending in scope, and no node at all
C9_Witness ==
    /\ pc = "done"
    /\ pods = <<>>
    /\ clusterPods # <<>>
    /\ clusterNodes = <<>>
    /\ ret.errNil
    /\ ret.results = <<>>

\* C10: a failing fetch makes the call return nil results and an error that
\* starts with "failed to fetch pending pods" or "failed to fetch nodes" and
\* wraps the cause; results are non-nil only with a nil error, and then there
\* is one for every fetched pod.
C10_NoPartialBatch ==
    [][/\ (pc = "fetchPods" /\ pc' = "done") =>
            /\ ret'.resultsNil
            /\ ~ret'.errNil
            /\ ret'.err[1] = "failed to fetch pending pods: "
            /\ ret'.err[Len(ret'.err)] \in ApiErrors
       /\ (pc = "fetchNodes" /\ pc' = "done") =>
            /\ ret'.resultsNil
            /\ ~ret'.errNil
            /\ ret'.err[1] = "failed to fetch nodes: "
            /\ ret'.err[Len(ret'.err)] \in ApiErrors
       /\ (pc' = "done" /\ ~ret'.resultsNil) =>
            /\ ret'.errNil
            /\ Len(ret'.results) = Len(pods')]_vars

\* pods were fetched, the node fetch failed, and nothing of them is returned
C10_Witness ==
    /\ pc = "done"
    /\ pods # <<>>
    /\ ~ret.errNil
    /\ ret.resultsNil
    /\ ret.err[1] = "failed to fetch nodes: "

\* what a container states for a resource, zero when it states nothing
Stated(rl, name) == IF name \in DOMAIN rl THEN rl[name] ELSE 0
RECURSIVE TotalOf(_, _, _)
TotalOf(cs, kind, name) ==
    IF cs = <<>> THEN 0
    ELSE TotalOf(SubSeq(cs, 1, Len(cs) - 1), kind, name)
         + Stated(cs[Len(cs)][kind], name)

\* C11: each of the four totals of parsePodResources is the exact sum, over
\* all containers, of the value the container states, zero where it states
\* none: a container without a limit adds nothing to the limit total, and a
\* pod without containers or resources has all totals zero.
C11_TotalsAreExactSums ==
    ppInfo # <<>> =>
        /\ ppInfo[1].RequestsCPU = TotalOf(ppPod.Containers, "Requests", "cpu")
        /\ ppInfo[1].RequestsMemory = TotalOf(ppPod.Containers, "Requests", "memory")
        /\ ppInfo[1].LimitsCPU = TotalOf(ppPod.Containers, "Limits", "cpu")
        /\ ppInfo[1].LimitsMemory = TotalOf(ppPod.Containers, "Limits", "memory")
        /\ (\A i \in DOMAIN ppPod.Containers :
              /\ ppPod.Containers[i].Requests = NoResources
              /\ ppPod.Containers[i].Limits = NoResources)
           => /\ ppInfo[1].RequestsCPU = 0
              /\ ppInfo[1].RequestsMemory = 0
              /\ ppInfo[1].LimitsCPU = 0
              /\ ppInfo[1].LimitsMemory = 0

\* two containers with different CPU requests, only the first with a CPU
\* limit: the limit total is that one limit, the request total the sum
C11_Witness ==
    /\ ppInfo # <<>>
    /\ Len(ppPod.Containers) = 2
    /\ "cpu" \in DOMAIN ppPod.Containers[1].Limits
    /\ ppPod.Containers[2].Limits = NoResources
    /\ "cpu" \in DOMAIN ppPod.Containers[1].Requests
    /\ "cpu" \in DOMAIN ppPod.Containers[2].Requests
    /\ ppPod.Containers[1].Requests["cpu"] # ppPod.Containers[2].Requests["cpu"]
    /\ ppInfo[1].LimitsCPU = ppPod.Containers[1].Limits["cpu"]
    /\ ppInfo[1].RequestsCPU = 750

\* some single node holds both demands of the pod
SomeNodeHoldsBoth(p, nodeList, withLimits) ==
    \E i \in DOMAIN nodeList :
        /\ DemandCPU(p, withLimits) <= nodeList[i].AllocatableCPU
        /\ DemandMemory(p, withLimits) <= nodeList[i].AllocatableMemory

\* C14: the verdict is taken against the cluster-wide maximum of each
\* resource, not against any one node: a pod whose CPU demand is at most the
\* largest node CPU and whose memory demand is at most the largest node
\* memory is schedulable even when no single node holds both demands.
C14_MaximaNotSingleNode ==
    (/\ ttResult # <<>>
     /\ ~SomeNodeHoldsBoth(ttPod, ttNodes, ttIncludeLimits)
     /\ \E i \in DOMAIN ttNodes :
            DemandCPU(ttPod, ttIncludeLimits) <= ttNodes[i].AllocatableCPU
     /\ \E i \in DOMAIN ttNodes :
            DemandMemory(ttPod, ttIncludeLimits) <= ttNodes[i].AllocatableMemory)
    => /\ ttResult[1].IsSchedulable
       /\ ttResult[1].Reason = <<>>
       /\ ttResult[1].Suggestion = <<>>

\* a CPU-rich node and a memory-rich node, a pod needing the larger of each
C14_Witness ==
    /\ ttResult # <<>>
    /\ ttResult[1].IsSchedulable
    /\ Len(ttNodes) = 2
    /\ ~SomeNodeHoldsBoth(ttPod, ttNodes, ttIncludeLimits)
    /\ DemandCPU(ttPod, ttIncludeLimits) = ttNodes[1].AllocatableCPU
    /\ DemandMemory(ttPod, ttIncludeLimits) = ttNodes[2].AllocatableMemory
    /\ ttNodes[1].AllocatableCPU > ttNodes[2].AllocatableCPU
    /\ ttNodes[1].AllocatableMemory < ttNodes[2].AllocatableMemory

\* C15: for a pod whose limit totals are both zero, analyzeSinglePod returns
\* exactly the same result with includeLimits set as with it unset.
C15_ZeroLimitsIgnoreFlag ==
    (/\ ttResult # <<>>
     /\ ttPod.LimitsCPU = 0
     /\ ttPod.LimitsMemory = 0)
    => /\ ttResult[1] = analyzeSinglePod(ttPod, ttNodes, ~ttIncludeLimits)
       /\ LabelsIn(ttResult[1].Reason) \subseteq {"requests"}
       /\ LabelsIn(ttResult[1].Suggestion) \subseteq {"requests"}

\* includeLimits set, no limits, and a pod too large in both resources, so
\* that the result carries a reason and a suggestion
C15_Witness ==
    /\ ttResult # <<>>
    /\ ttIncludeLimits
    /\ ttPod.LimitsCPU = 0
    /\ ttPod.LimitsMemory = 0
    /\ ~ttResult[1].IsSchedulable
    /\ Mentions(ttResult[1].Reason, ".cpu = ")
    /\ Mentions(ttResult[1].Reason, ".memory = ")
    /\ ttResult[1] = analyzeSinglePod(ttPod, ttNodes, FALSE)

C16_UnsupportedFormatAlwaysError ==
    (reportRet # <<>> /\ format \notin {"human", "json", "yaml"})
    => /\ ~reportRet[1].errNil
       /\ reportRet[1].err = <<"unsupported output format: ", format>>

\* C16, amended: GenerateReport called with a non-empty result list on a
\* Reporter whose format is none of human, json and yaml returns an error
\* whose message contains "unsupported output format: <format>", and writes
\* nothing.
C16_UnsupportedFormatError ==
    (/\ reportRet # <<>>
     /\ format \notin {"human", "json", "yaml"}
     /\ reportResults # <<>>)
    => /\ ~reportRet[1].errNil
       /\ reportRet[1].err = <<"unsupported output format: ", format>>
       /\ writer = <<>>

\* the case of TestGenerateReport_UnsupportedFormat
C16_Witness ==
    /\ reportRet # <<>>
    /\ format = "unsupported"
    /\ Len(reportResults) = 1
    /\ ~reportRet[1].errNil
    /\ reportRet[1].err = <<"unsupported output format: ", "unsupported">>

\* C17: with an empty result list GenerateReport writes exactly the one line
\* "No pending pods found in the specified scope." and returns nil, whatever
\* the format: no JSON or YAML document is written.
C17_EmptyResultsOneLine ==
    (reportRet # <<>> /\ reportResults = <<>>)
    => /\ reportRet[1].errNil
       /\ Len(writer) = 1
       /\ writer[1].kind = "text"
       /\ writer[1].text = <<"No pending pods found in the specified scope.">>
       /\ writer[1].value = <<>>

\* the case of TestEmptyResults: a JSON reporter and no results
C17_Witness ==
    /\ reportRet # <<>>
    /\ reportResults = <<>>
    /\ format = "json"
    /\ Len(writer) = 1
    /\ reportRet[1].errNil

\* the indices of the results that are not schedulable, ascending
RECURSIVE UnschedulableIndices(_)
UnschedulableIndices(rs) ==
    IF rs = <<>> THEN <<>>
    ELSE LET front == UnschedulableIndices(SubSeq(rs, 1, Len(rs) - 1))
         IN  IF rs[Len(rs)].IsSchedulable THEN front
             ELSE Append(front, Len(rs))

\* C18: buildClusterAnalysis returns TotalPendingPods = the number of
\* results, TotalNodes and ClusterName = its arguments, UnschedulablePods =
\* the results with IsSchedulable false in their original order, and a
\* Summary stating the two counts.
C18_ClusterAnalysisFields ==
    analysis # <<>> =>
        LET a == analysis[1]
            idx == UnschedulableIndices(reportResults)
        IN  /\ a.TotalPendingPods = Len(reportResults)
            /\ a.TotalNodes = totalNodes
            /\ a.ClusterName = clusterName
            /\ Len(a.UnschedulablePods) = Len(idx)
            /\ \A k \in DOMAIN idx :
                    a.UnschedulablePods[k] = reportResults[idx[k]]
            /\ a.Summary = <<"Found ", ToString(Len(reportResults)),
                             " pending pods, ", ToString(Len(idx)),
                             " unschedulable due to resource constraints">>

\* the case of TestBuildClusterAnalysis: a schedulable result followed by
\* two different unschedulable ones
C18_Witness ==
    /\ analysis # <<>>
    /\ Len(reportResults) = 3
    /\ reportResults[1].IsSchedulable
    /\ reportResults[2].Pod.Name = "unschedulable-pod-1"
    /\ reportResults[3].Pod.Name = "unschedulable-pod-2"
    /\ Len(analysis[1].UnschedulablePods) = 2
    /\ analysis[1].UnschedulablePods[1].Pod.Name = "unschedulable-pod-1"
    /\ analysis[1].Summary[2] = "3"
    /\ analysis[1].Summary[4] = "2"

\* the lines of the writer that open a pod's entry, and the reason and
\* suggestion lines
IsEntryLine(l) ==
    l.kind = "text" /\ l.text # <<>> /\ l.text[1] \in {"[v] Pod: ", "[x] Pod: "}
IsDetailLine(l) ==
    l.kind = "text" /\ l.text # <<>> /\ l.text[1] \in {"-> Reason: ", "-> Suggested: "}
EntryLines == SelectSeq([i \in DOMAIN writer |-> i], LAMBDA i : IsEntryLine(writer[i]))

\* C19: for a non-empty result list the human report has a header stating
\* the number of results and one entry per result in input order: for a
\* schedulable result the line "[v] Pod: <name> - Schedulable" with no reason
\* or suggestion line, for an unschedulable one the line "[x] Pod: <name>"
\* followed by its Reason and its Suggestion verbatim.
C19_HumanReportEntries ==
    (reportRet # <<>> /\ format = "human" /\ reportResults # <<>>)
    => /\ reportRet[1].errNil
       /\ writer[1].text = <<"Found ", ToString(Len(reportResults)),
                             " pending pod(s) for analysis:">>
       /\ Len(EntryLines) = Len(reportResults)
       /\ \A k \in DOMAIN reportResults :
            LET r == reportResults[k]
                at == EntryLines[k]
            IN  IF r.IsSchedulable
                THEN /\ writer[at].text = <<"[v] Pod: ", r.Pod.Name, " - Schedulable">>
                     /\ ~IsDetailLine(writer[at + 1])
                ELSE /\ writer[at].text = <<"[x] Pod: ", r.Pod.Name>>
                     /\ writer[at + 1].text = <<"-> Reason: ">> \o r.Reason
                     /\ writer[at + 2].text = <<"-> Suggested: ">> \o r.Suggestion
       /\ Cardinality({i \in DOMAIN writer : IsDetailLine(writer[i])})
            = 2 * Len(UnschedulableIndices(reportResults))

\* the case of TestGenerateHumanReport extended: an unschedulable, a
\* schedulable and another unschedulable result, reported in that order
C19_Witness ==
    /\ reportRet # <<>>
    /\ format = "human"
    /\ Len(reportResults) = 3
    /\ reportResults[1].Pod.Name = "unschedulable-pod-1"
    /\ reportResults[2].Pod.Name = "schedulable-pod"
    /\ reportResults[3].Pod.Name = "unschedulable-pod-2"
    /\ writer[3].text = <<"[x] Pod: ", "unschedulable-pod-1">>
    /\ writer[4].text = <<"-> Reason: ", "Insufficient CPU">>
    /\ writer[7].text = <<"[v] Pod: ", "schedulable-pod", " - Schedulable">>
    /\ writer[9].text = <<"[x] Pod: ", "unschedulable-pod-2">>

\* every character of the prefix stands at its place in the text
StartsWith(text, prefix) ==
    \A i \in DOMAIN prefix : i \in DOMAIN text /\ text[i] = prefix[i]

\* C20: validateFlags returns nil exactly when the output format is one of
\* human, json, yaml, the Slack webhook is empty or starts with
\* "https://hooks.slack.com/", the log level is one of debug, info, warn,
\* error and the log format is one of text, json (case-sensitive, the empty
\* output format invalid); otherwise the error is that of the first failing
\* check in the order output format, Slack webhook, log level, log format.
C20_ValidateFlags ==
    flagsErr # <<>> =>
        LET okOutput == outputFormat \in {"human", "json", "yaml"}
            okSlack == alertSlack = <<>> \/ StartsWith(alertSlack, SlackPrefix)
            okLevel == logLevel \in {"debug", "info", "warn", "error"}
            okLogFormat == logFormat \in {"text", "json"}
            e == flagsErr[1]
        IN  /\ e.errNil <=> (okOutput /\ okSlack /\ okLevel /\ okLogFormat)
            /\ ~okOutput =>
                 e.err = <<"unsupported output format: ", outputFormat,
                           " (supported: human, json, yaml)">>
            /\ (okOutput /\ ~okSlack) =>
                 e.err = <<"invalid Slack webhook URL: must start with https://hooks.slack.com/">>
            /\ (okOutput /\ okSlack /\ ~okLevel) =>
                 e.err = <<"unsupported log level: ", logLevel,
                           " (supported: debug, info, warn, error)">>
            /\ (okOutput /\ okSlack /\ okLevel /\ ~okLogFormat) =>
                 e.err = <<"unsupported log format: ", logFormat,
                           " (supported: text, json)">>

\* the case "multiple invalid flags" of TestValidateFlags, with the other two
\* flags invalid as well: the output format is the one reported
C20_Witness ==
    /\ flagsErr # <<>>
    /\ outputFormat = "xml"
    /\ alertSlack = InvalidURL
    /\ logLevel = "invalid"
    /\ logFormat = "xml"
    /\ ~flagsErr[1].errNil
    /\ flagsErr[1].err[1] = "unsupported output format: "

\* the pods of the cluster a list call with this namespace argument is to
\* return: the pending ones, of that namespace unless it is empty
PendingIn(ns) ==
    {i \in DOMAIN clusterPods :
        /\ clusterPods[i].Phase = "Pending"
        /\ (ns = "" \/ clusterPods[i].Namespace = ns)}

\* C22: FetchPendingPods returns only pods in phase Pending; with a
\* non-empty namespace argument every returned pod, and so every result,
\* belongs to that namespace, and with an empty one the pending pods of all
\* namespaces are returned.
C22_PendingPodsOfNamespace ==
    (pc \in {"fetchNodes", "loop"} \/ (pc = "done" /\ ret.errNil)) =>
        /\ {pods[i].Name : i \in DOMAIN pods}
             = {clusterPods[i].Name : i \in PendingIn(namespace)}
        /\ Len(pods) = Cardinality(PendingIn(namespace))
        /\ namespace # "" =>
             /\ \A i \in DOMAIN pods : pods[i].Namespace = namespace
             /\ \A i \in DOMAIN results : results[i].Pod.Namespace = namespace
             /\ \A i \in DOMAIN ret.results :
                    ret.results[i].Pod.Namespace = namespace

\* a namespaced call over a cluster holding a pending pod of that namespace
\* and a pod that is to be left out, analysed to the end
C22_Witness ==
    /\ pc = "done"
    /\ ret.errNil
    /\ namespace = "default"
    /\ Len(clusterPods) = 2
    /\ Len(ret.results) = 1
    /\ \E i \in DOMAIN clusterPods :
            clusterPods[i].Phase # "Pending" \/ clusterPods[i].Namespace # "default"

\* the same cluster analysed cluster-wide: pending pods of two namespaces
C22_WitnessAllNamespaces ==
    /\ pc = "done"
    /\ ret.errNil
    /\ namespace = ""
    /\ Len(ret.results) = 2
    /\ ret.results[1].Pod.Namespace # ret.results[2].Pod.Namespace

\* how often a call occurs among the calls made
RECURSIVE Occurrences(_, _)
Occurrences(trace, name) ==
    IF trace = <<>> THEN 0
    ELSE Occurrences(Tail(trace), name) + (IF Head(trace) = name THEN 1 ELSE 0)

\* C23: within one AnalyzePodSchedulability call the pending pods are
\* fetched before the nodes; when the pod fetch fails FetchNodes is never
\* called; and no pod is evaluated before both fetches have succeeded.
C23_FetchOrder ==
    /\ calls # <<>> => calls[1] = "FetchPendingPods"
    /\ \A i \in DOMAIN calls :
            calls[i] = "FetchNodes" => (i = 2 /\ pc # "fetchNodes")
    /\ (pc = "done" /\ ~ret.errNil /\ ret.err[1] = "failed to fetch pending pods: ")
            => Occurrences(calls, "FetchNodes") = 0
    /\ \A i \in DOMAIN calls :
            calls[i] = "analyzeSinglePod" =>
                /\ i > 2
                /\ calls[2] = "FetchNodes"
                /\ ret.errNil
    /\ results # <<>> => (Len(calls) >= 2 /\ calls[2] = "FetchNodes")

\* a call whose pod fetch failed: it made that one call and no other
C23_Witness ==
    /\ pc = "done"
    /\ ~ret.errNil
    /\ ret.err[1] = "failed to fetch pending pods: "
    /\ calls = <<"FetchPendingPods">>
    /\ clusterNodes # <<>>

\* a call that went through: two fetches in order, then the evaluations
C23_WitnessEvaluated ==
    /\ pc = "done"
    /\ ret.errNil
    /\ Len(ret.results) = 2
    /\ SubSeq(calls, 1, 3) = <<"FetchPendingPods", "FetchNodes", "analyzeSinglePod">>

\* C24: the maxima over the node list are computed exactly once during one
\* AnalyzePodSchedulability call over k pods, not once per pod.
C24_EnvelopeComputedOnce ==
    (pc = "done" /\ ret.errNil /\ Len(pods) >= 1)
        => Occurrences(calls, "findMaxAvailableResources") = 1

\* what the code does: one computation for every pod evaluated
C24_EnvelopeComputedPerPod ==
    (pc = "done" /\ ret.errNil)
        => /\ Occurrences(calls, "findMaxAvailableResources") = Len(pods)
           /\ Occurrences(calls, "analyzeSinglePod") = Len(pods)

\* a call over two pods that has computed the maxima twice
C24_Witness ==
    /\ pc = "done"
    /\ ret.errNil
    /\ Len(pods) = 2
    /\ Occurrences(calls, "findMaxAvailableResources") = 2

\* C28: with an empty node list a pod is unschedulable exactly when its
\* selected CPU demand or its selected memory demand is non-zero, with the
\* combined "exceed all node allocatable resources" reason when both are
\* positive; a pod whose selected demands are both zero is schedulable
\* although the cluster has no nodes.
C28_EmptyNodeList ==
    (ttResult # <<>> /\ ttNodes = <<>>) =>
        LET cpu == DemandCPU(ttPod, ttIncludeLimits)
            memory == DemandMemory(ttPod, ttIncludeLimits)
            r == ttResult[1]
        IN  /\ ~r.IsSchedulable <=> (cpu # 0 \/ memory # 0)
            /\ (cpu > 0 /\ memory > 0) => IsCombinedText(r, cpu, memory, 0, 0)
            /\ (cpu = 0 /\ memory = 0) =>
                 (r.IsSchedulable /\ r.Reason = <<>> /\ r.Suggestion = <<>>)
            /\ r.MaxAvailableCPU = 0
            /\ r.MaxAvailableMemory = 0

\* no nodes and a pod that asks for nothing: reported schedulable
C28_Witness ==
    /\ ttResult # <<>>
    /\ ttNodes = <<>>
    /\ DemandCPU(ttPod, ttIncludeLimits) = 0
    /\ DemandMemory(ttPod, ttIncludeLimits) = 0
    /\ ttResult[1].IsSchedulable

\* no nodes and a pod with both demands positive: the combined reason
C28_WitnessCombined ==
    /\ ttResult # <<>>
    /\ ttNodes = <<>>
    /\ DemandCPU(ttPod, ttIncludeLimits) > 0
    /\ DemandMemory(ttPod, ttIncludeLimits) > 0
    /\ ~ttResult[1].IsSchedulable
    /\ Mentions(ttResult[1].Reason,
                " exceed all node allocatable resources (max CPU: ")

\* the positions of "/" in a text
Slashes(text) == {i \in DOMAIN text : text[i] = "/"}

\* C27: RedactWebhookURL returns the empty string for the empty input; for
\* an input whose last "/" is not its last character, the input up to and
\* including that "/" followed by "***"; for every other non-empty input (no
\* "/" at all, or ending in "/") just "***".  So what follows the last "/"
\* of the output is the mask, whatever the final segment of the input was.
C27_RedactWebhookURL ==
    redacted # <<>> =>
        LET out == redacted[1]
            n == Len(webhookURL)
        IN  /\ webhookURL = <<>> => out = <<>>
            /\ (Slashes(webhookURL) # {} /\ MaxOf(Slashes(webhookURL)) < n) =>
                 LET k == MaxOf(Slashes(webhookURL))
                 IN  /\ Len(out) = k + 3
                     /\ \A i \in 1..k : out[i] = webhookURL[i]
                     /\ \A i \in (k + 1)..(k + 3) : out[i] = "*"
            /\ (n > 0 /\ (Slashes(webhookURL) = {} \/ webhookURL[n] = "/")) =>
                 out = <<"*", "*", "*">>
            /\ n > 0 =>
                 /\ Len(out) >= 3
                 /\ SubSeq(out, Len(out) - 2, Len(out)) = <<"*", "*", "*">>
                 /\ Slashes(out) \subseteq 1..(Len(out) - 3)

\* the webhook of the tests: everything after "services/T123/B456/" masked
C27_Witness ==
    /\ redacted # <<>>
    /\ webhookURL = SlackWebhook
    /\ Len(redacted[1]) = Len(SlackWebhook) - Len(<<"t", "o", "k", "e", "n", "1", "2", "3">>) + 3
    /\ redacted[1][Len(redacted[1]) - 3] = "/"

\* an input ending in "/" after an earlier "/": only the mask is returned
C27_WitnessTrailingSlash ==
    /\ redacted # <<>>
    /\ webhookURL = <<"a", "/", "a", "/">>
    /\ redacted[1] = <<"*", "*", "*">>

\* C26: the message built for a result list with n unschedulable pods has
\* exactly one attachment, coloured "good" when n = 0 and "danger"
\* otherwise; its fields start with one field for each of the first
\* min(n, 5) unschedulable pods, in input order, each naming its pod with its
\* reason and suggestion; exactly when n > 5 one more field, titled
\* "Additional Issues", follows and states n - 5; there are never more than
\* six fields, and the pods listed plus the stated remainder make n.
C26_SlackMessage ==
    slackMessage # <<>> =>
        LET message == slackMessage[1]
            attachment == message.Attachments[1]
            idx == UnschedulableIndices(reportResults)
            n == Len(idx)
            listed == IF n < 5 THEN n ELSE 5
            fields == attachment.Fields
            extra == {j \in 1..Len(fields) :
                        fields[j].Title = <<"Additional Issues">>}
        IN  /\ Len(message.Attachments) = 1
            /\ (attachment.Color = "good") <=> (n = 0)
            /\ (attachment.Color = "danger") <=> (n # 0)
            /\ Len(fields) = listed + (IF n > 5 THEN 1 ELSE 0)
            /\ Len(fields) <= 6
            /\ \A j \in 1..listed :
                 /\ fields[j].Title = <<"Pod: ", reportResults[idx[j]].Pod.Name>>
                 /\ fields[j].Value =
                        <<"Reason: ">> \o reportResults[idx[j]].Reason
                        \o <<"\nSuggestion: ">>
                        \o reportResults[idx[j]].Suggestion
            /\ extra = (IF n > 5 THEN {listed + 1} ELSE {})
            /\ \A j \in extra :
                 fields[j].Value = <<"... and ", ToString(n - 5),
                                     " more unschedulable pods">>
            /\ Cardinality(1..Len(fields) \ extra)
                 + (IF n > 5 THEN n - 5 ELSE 0) = n

\* six unschedulable pods of both kinds: five listed, one more announced
C26_Witness ==
    /\ slackMessage # <<>>
    /\ Len(UnschedulableIndices(reportResults)) = 6
    /\ reportResults[1].Pod.Name = "unschedulable-pod-2"
    /\ reportResults[2].Pod.Name = "unschedulable-pod-1"
    /\ Len(slackMessage[1].Attachments[1].Fields) = 6
    /\ slackMessage[1].Attachments[1].Fields[6].Title = <<"Additional Issues">>

\* a list with schedulable pods only: a "good" attachment without fields
C26_WitnessGood ==
    /\ slackMessage # <<>>
    /\ Len(reportResults) = 2
    /\ slackMessage[1].Attachments[1].Color = "good"
    /\ slackMessage[1].Attachments[1].Fields = <<>>

\* exactly five unschedulable pods among six results: five fields, no remainder
C26_WitnessFive ==
    /\ slackMessage # <<>>
    /\ Len(reportResults) = 6
    /\ Len(UnschedulableIndices(reportResults)) = 5
    /\ Len(slackMessage[1].Attachments[1].Fields) = 5

\* C25: SendSlackNotification called with a non-empty result list returns
\* nil for every response whose status is in 200..299 and an error in every
\* other case: it fails exactly when the request cannot be sent or the
\* status is outside 2xx.
C25_NilForEvery2xx ==
    (slackRet # <<>> /\ Len(reportResults) # 0) =>
        (slackRet[1].errNil <=>
            (response.err = <<>> /\ response.status \in 200..299))

\* C25, as the code has it: nil is returned for status 200 only; every other
\* status, 201 and 204 included, and every transport failure is an error.
C25_NilOnlyFor200 ==
    (slackRet # <<>> /\ Len(reportResults) # 0) =>
        (slackRet[1].errNil <=>
            (response.err = <<>> /\ response.status = 200))

\* a 204 answer to a delivered notification, reported as an error
C25_Witness ==
    /\ slackRet # <<>>
    /\ Len(reportResults) # 0
    /\ response.status = 204
    /\ Len(posted) = 1
    /\ ~slackRet[1].errNil
    /\ slackRet[1].err = <<"Slack API returned status ", "204", ": ", "ok">>

\* runAnalysis has called SendSlackNotification
C21_SlackAttempted ==
    \/ runPc = "slack"
    \/ slackRet # <<>>
    \/ posted # <<>>

\* C21: in runAnalysis the Slack notification is attempted only after the
\* analysis has returned its results without error and GenerateReport has
\* returned nil for those results; a failed notification makes runAnalysis
\* return an error that wraps the notification's; and from the moment the
\* report is written, through the notification and its failure, what stdout
\* holds of the report stays in place and the results stay as computed.
C21_SlackAfterReport ==
    /\ [](C21_SlackAttempted =>
            /\ pc = "done"
            /\ ret.errNil
            /\ reportRet # <<>>
            /\ reportRet[1].errNil
            /\ reportResults = ret.results)
    /\ []((runPc = "returned" /\ slackRet # <<>> /\ ~slackRet[1].errNil) =>
            /\ ~runRet[1].errNil
            /\ runRet[1].err = <<"failed to send Slack notification: ">>
                                \o slackRet[1].err)
    /\ []((runPc = "returned" /\ slackRet # <<>> /\ slackRet[1].errNil) =>
            runRet[1].errNil)
    /\ [][reportRet # <<>> =>
            /\ Len(writer') >= Len(writer)
            /\ SubSeq(writer', 1, Len(writer)) = writer
            /\ ret' = ret
            /\ reportResults' = reportResults
            /\ reportRet' = reportRet]_vars

\* a JSON report of two results is on stdout, the webhook answered 500, and
\* runAnalysis returned the wrapped error
C21_Witness ==
    /\ runPc = "returned"
    /\ format = "json"
    /\ Len(ret.results) = 2
    /\ Len(writer) = 1
    /\ writer[1].kind = "json"
    /\ response.status = 500
    /\ Len(posted) = 1
    /\ ~runRet[1].errNil
    /\ runRet[1].err[1] = "failed to send Slack notification: "

\* the report could not be written: runAnalysis returned without a notification
C21_WitnessReportFailed ==
    /\ runPc = "returned"
    /\ alertSlack # <<>>
    /\ reportRet # <<>>
    /\ ~reportRet[1].errNil
    /\ ~C21_SlackAttempted
    /\ ~runRet[1].errNil

\* the documents (JSON or YAML) that runAnalysis has written to stdout
WrittenAnalyses ==
    {writer[i].value[1] : i \in {j \in DOMAIN writer :
                                    writer[j].kind \in {"json", "yaml"}}}

\* C29: the total node count that runAnalysis writes in the report equals the
\* number of nodes the pods were evaluated against, in every execution, also
\* when nodes join or leave the cluster between the analyzer's read of the
\* nodes and runAnalysis's own.
C29_NodeCountOfAnalysedNodes ==
    \A a \in WrittenAnalyses : a.TotalNodes = Len(nodes)

\* C29, as the code has it: the count written is the length of the node list
\* that runAnalysis fetched itself, after the analysis; it is the number of
\* nodes analysed whenever the cluster's nodes did not change in between.
C29_NodeCountOfSecondRead ==
    \A a \in WrittenAnalyses :
        /\ a.TotalNodes = Len(metaNodes)
        /\ changes = 0 => a.TotalNodes = Len(nodes)

\* one node analysed, a second one joined before the metadata fetch: the
\* report says two
C29_Witness ==
    /\ runPc = "returned"
    /\ Len(nodes) = 1
    /\ Len(ret.results) = 1
    /\ changes = 1
    /\ \E a \in WrittenAnalyses : a.TotalNodes = 2

\* piece occurs in text as a run of consecutive elements
Contains(text, piece) ==
    \E i \in 0..(Len(text) - Len(piece)) :
        SubSeq(text, i + 1, i + Len(piece)) = piece

\* C30: the webhook URL given with --alert-slack is never written unredacted
\* to stdout or to the log: whatever the results and whether or not the
\* notification succeeds, no line of stdout and no log entry holds the URL.
C30_WebhookNeverWritten ==
    alertSlack # <<>> =>
        /\ \A i \in DOMAIN writer : ~Contains(writer[i].text, alertSlack)
        /\ \A i \in DOMAIN logged : ~Contains(logged[i].fields, alertSlack)

\* C30, as the code has it: the entries "Sending Slack notification" carry
\* the redacted form only; the URL itself is written by the placeholder's
\* line on stdout and by the error entry of a request that failed in
\* transport, and nowhere else.
C30_WebhookWrittenOnlyBy ==
    alertSlack # <<>> =>
        /\ \A i \in DOMAIN logged :
             Contains(logged[i].fields, alertSlack) =>
                /\ logged[i].msg = "Failed to send Slack notification"
                /\ response.err # <<>>
        /\ \A i \in DOMAIN logged :
             logged[i].msg = "Sending Slack notification" =>
                logged[i].fields[1] = "webhook_url="
                /\ Contains(logged[i].fields, RedactWebhookURL(alertSlack))
        /\ \A i \in DOMAIN writer :
             Contains(writer[i].text, alertSlack) =>
                writer[i].text[1] = "Slack notification would be sent to: "

\* the placeholder printed the webhook on stdout after the report
C30_Witness ==
    /\ runPc = "returned"
    /\ alertSlack = SlackWebhook
    /\ runRet[1].errNil
    /\ Len(writer) > 1
    /\ Contains(writer[Len(writer)].text, SlackWebhook)

\* the request failed in transport and the error entry of the log holds the
\* webhook
C30_WitnessLogged ==
    /\ runPc = "returned"
    /\ alertSlack = SlackWebhook
    /\ ~runRet[1].errNil
    /\ logged # <<>>
    /\ Contains(logged[Len(logged)].fields, SlackWebhook)

====
